---------------------------- MODULE Spec2Model ----------------------------
(***************************************************************************)
(* A model of lightning-node-operator: the Actions engine (balance targets *)
(* and fee proposals computed from a snapshot of channel statistics) and   *)
(* the Scheduler that debounces refreshes.                                 *)
(*                                                                         *)
(* Numbers.  The source computes with IEEE doubles.  The model computes    *)
(* the same expressions over exact rationals [n, d] (d = 0 encodes the     *)
(* non-finite values: n = 0 is NaN, n = 1 is +Infinity, n = -1 is          *)
(* -Infinity), so Math.round, Math.floor, Math.max/min and the comparison  *)
(* operators behave as in JavaScript on every value that a double holds    *)
(* exactly.  Time is counted in whole days.                                *)
(***************************************************************************)
EXTENDS Integers, Sequences, FiniteSets, TLC

VARIABLES
    config,     \* Actions.config: ActionsConfig & { days }
    stats,      \* INodeStats.channels: the snapshot, in map order
    now,        \* Date.now() while get() runs (days)
    channels,   \* Actions.channels: channel index -> balance Action
    pc,         \* position of the get() generator
    idx,        \* channel the current loop of get() is about to visit
    acc,        \* get(): the running sums actual, target, max
    out,        \* the Actions yielded so far, in order
    idle,       \* Scheduler.idle
    timer,      \* Scheduler.delay: the funcs whose setTimeout promise is pending
    running,    \* Scheduler.delay: the funcs whose result is being awaited
    calls,      \* number of Scheduler.call() invocations so far; the n-th passes func n
    accepted,   \* the funcs whose call() started a delay
    invoked,    \* the funcs invoked so far, in order
    errors,     \* number of "error" events emitted by the Scheduler
    constructed,        \* whether new Scheduler(...) has returned an object
    delayMilliseconds,  \* Scheduler.delayMilliseconds
    thrown,     \* the message of the Error thrown by the constructor, in pieces
    waited,    \* milliseconds since setTimeout, for each func that got a timer
    listeners,  \* the listeners of Scheduler.errorEmitter
    received,   \* onError listener -> number of errors it was called with
    unhandled,  \* number of rejected promises of delay(), which nothing handles
    serverEmitters,     \* Refresher: the emitters in use, 0 when there are none
    emitters,   \* the server emitters created so far, in order
    clientListeners,    \* Refresher: the onChanged listeners
    data,       \* Refresher.data: the number of times it has been fetched
    notified,   \* onChanged listener -> the names it was called with, in order
    infoForwards,   \* NodeInfo.forwards, each element by its created_at
    infoPayments,   \* NodeInfo.payments, each element by its created_at
    fetches,    \* the requests of handleForward and handlePayment that are awaited
    lndNow,     \* the time of the node
    infoDays,   \* NodeInfoImpl.days
    changeListeners,    \* the number of listeners of NodeInfoImpl.changeEmitter
    subscribed, \* whether the handlers of NodeInfoImpl are attached to the node's emitters
    mainPc,     \* where the main loop stands
    backoffWaited,  \* the milliseconds since the timeout of the reconnect was set
    logged,     \* the number of errors the main loop has caught and logged
    engineRuns, \* the number of times the main loop has run the engine
    awaitedChanges, \* the number of change notifications the main loop has awaited
    sessions,   \* the number of connections on which the main loop got to run the engine
    ret         \* the value returned by a function applied on its own

engineVars == <<config, stats, now, channels, pc, idx, acc, out>>
schedulerVars ==
    <<idle, timer, running, calls, accepted, invoked, errors, constructed,
      delayMilliseconds, thrown, waited, listeners, received, unhandled>>
refresherVars == <<serverEmitters, emitters, clientListeners, data, notified>>
nodeInfoVars ==
    <<infoForwards, infoPayments, fetches, lndNow, infoDays, changeListeners, subscribed>>
mainVars == <<mainPc, backoffWaited, logged, engineRuns, awaitedChanges, sessions>>
nonEngineVars == <<schedulerVars, refresherVars, nodeInfoVars, mainVars, ret>>
nonSchedulerVars == <<engineVars, refresherVars, nodeInfoVars, mainVars, ret>>
nonRefresherVars == <<engineVars, nodeInfoVars, mainVars, ret>>
nonNodeInfoVars == <<engineVars, schedulerVars, refresherVars, mainVars, ret>>
restVars == <<engineVars, nodeInfoVars, ret>>
vars == <<engineVars, schedulerVars, refresherVars, nodeInfoVars, mainVars, ret>>

-----------------------------------------------------------------------------
(* IEEE-like arithmetic over exact rationals *)

Abs(x) == IF x < 0 THEN -x ELSE x

Sign(x) == IF x < 0 THEN -1 ELSE IF x > 0 THEN 1 ELSE 0

RECURSIVE Gcd(_, _)
Gcd(a, b) == IF b = 0 THEN a ELSE Gcd(b, a % b)

\* n / d as a double division would give it, in lowest terms
Rat(n, d) ==
    IF d = 0 THEN [n |-> Sign(n), d |-> 0]
    ELSE LET g == Gcd(Abs(n), Abs(d))
         IN  [n |-> Sign(d) * (n \div g), d |-> Abs(d) \div g]

R(i) == [n |-> i, d |-> 1]

NaN == [n |-> 0, d |-> 0]

IsNaN(a) == a.n = 0 /\ a.d = 0

IsFinite(a) == a.d # 0

RAdd(a, b) ==
    IF a.d # 0 /\ b.d # 0 THEN Rat(a.n * b.d + b.n * a.d, a.d * b.d)
    ELSE IF a.d = 0 /\ b.d = 0 THEN (IF a.n = b.n THEN a ELSE NaN)
    ELSE IF a.d = 0 THEN a ELSE b

RNeg(a) == [n |-> -a.n, d |-> a.d]

RSub(a, b) == RAdd(a, RNeg(b))

RMul(a, b) == Rat(a.n * b.n, a.d * b.d)

RInv(a) == IF a.n < 0 THEN [n |-> -a.d, d |-> -a.n] ELSE [n |-> a.d, d |-> a.n]

RDiv(a, b) == RMul(a, RInv(b))

RAbs(a) == [n |-> Abs(a.n), d |-> a.d]

\* a < b, a <= b: false as soon as one side is NaN
RLt(a, b) ==
    /\ ~IsNaN(a) /\ ~IsNaN(b)
    /\ IF a.d = 0 /\ b.d = 0 THEN a.n < b.n ELSE a.n * b.d < b.n * a.d

RLe(a, b) ==
    /\ ~IsNaN(a) /\ ~IsNaN(b)
    /\ IF a.d = 0 /\ b.d = 0 THEN a.n <= b.n ELSE a.n * b.d <= b.n * a.d

\* Math.max, Math.min: NaN as soon as one argument is NaN
RMax(a, b) == IF IsNaN(a) \/ IsNaN(b) THEN NaN ELSE IF RLt(a, b) THEN b ELSE a

RMin(a, b) == IF IsNaN(a) \/ IsNaN(b) THEN NaN ELSE IF RLt(b, a) THEN b ELSE a

\* Math.floor
RFloor(a) == IF a.d = 0 THEN a ELSE R(a.n \div a.d)

\* Math.round: the nearest integer, a tie going up
RRound(a) == IF a.d = 0 THEN a ELSE R((2 * a.n + a.d) \div (2 * a.d))

-----------------------------------------------------------------------------
(* Sequences *)

RECURSIVE SumSeq(_)
SumSeq(s) == IF s = <<>> THEN 0 ELSE Head(s) + SumSeq(Tail(s))

RECURSIVE MaxSeq(_)
MaxSeq(s) ==
    IF s = <<>> THEN 0
    ELSE LET m == MaxSeq(Tail(s)) IN IF Head(s) > m THEN Head(s) ELSE m

\* the sum of a sequence of rationals
RECURSIVE RSum(_)
RSum(s) == IF s = <<>> THEN R(0) ELSE RAdd(Head(s), RSum(Tail(s)))

Min(S) == CHOOSE x \in S : \A y \in S : x <= y

\* Array.prototype.slice(from): the elements after the first `count` ones
Slice(s, count) == SubSeq(s, count + 1, Len(s))

-----------------------------------------------------------------------------
(* The snapshot: INodeStats, IChannelStats, Change *)

InForward == "InForward"
OutForward == "OutForward"
InRebalance == "InRebalance"
OutRebalance == "OutRebalance"
OutPayment == "OutPayment"

\* partnerFeeRate, inChannel, outChannel, lastOutFeeRate: no value
Undefined == -1

\* The balances of a channel's history, latest first: the newest change left
\* the current local balance, and a change of `amount` (counted as outflow:
\* positive for what left the channel, negative for what came in) was
\* preceded by balance + amount.
RECURSIVE Balances(_, _)
Balances(balance, raw) ==
    IF raw = <<>> THEN <<>>
    ELSE <<balance>> \o Balances(balance + Head(raw).amount, Tail(raw))

\* The balance before the oldest change of the history.
RECURSIVE StartBalance(_, _)
StartBalance(balance, raw) ==
    IF raw = <<>> THEN balance ELSE StartBalance(balance + Head(raw).amount, Tail(raw))

\* ChannelStats.history: the changes of one channel, each with the balance
\* it left behind.
History(balance, raw) ==
    LET b == Balances(balance, raw)
    IN  [i \in 1..Len(raw) |->
            [kind |-> raw[i].kind, time |-> raw[i].time, amount |-> raw[i].amount,
             fee |-> raw[i].fee, balance |-> b[i], peer |-> raw[i].peer]]

\* IChannelStats.inForwards, outForwards: count, sum and maximum of the
\* forwarded tokens of one direction.
ForwardStats(history, kind) ==
    LET sel(c) == c.kind = kind
        f == SelectSeq(history, sel)
        tokens == [i \in 1..Len(f) |-> Abs(f[i].amount)]
    IN  [count |-> Len(f), totalTokens |-> SumSeq(tokens), maxTokens |-> MaxSeq(tokens)]

\* One IChannelStats object.
ChannelStats(properties, raw) ==
    LET history == History(properties.local_balance, raw)
    IN  [properties |-> properties,
         history |-> history,
         inForwards |-> ForwardStats(history, InForward),
         outForwards |-> ForwardStats(history, OutForward)]

\* The timeline invariants: every balance of the history, and the one before
\* it, lies in [0, capacity]; the changes are sorted latest first.
ValidTimeline(capacity, balance, raw) ==
    /\ \A b \in {StartBalance(balance, raw)} \cup
                {Balances(balance, raw)[i] : i \in 1..Len(raw)} :
            0 <= b /\ b <= capacity
    /\ \A i \in 1..(Len(raw) - 1) : raw[i].time >= raw[i + 1].time

-----------------------------------------------------------------------------
(* Actions: the balance actions *)

\* Actions.getTargetBalanceDistance
getTargetBalanceDistance(balance, target, capacity) ==
    IF RLe(balance, target)
    THEN RSub(RDiv(balance, target), R(1))
    ELSE RDiv(RSub(balance, target), RSub(capacity, target))

\* Actions.getPriority
getPriority(base, distance, minRebalanceDistance) ==
    RMul(R(base), RFloor(RDiv(RAbs(distance), minRebalanceDistance)))

\* createAction with Math.floor in the place of Math.round
createBalanceActionFloor(properties, cfg, targetBalance, reason) ==
    [entity |-> "channel", id |-> properties.id,
     priority |-> getPriority(1, getTargetBalanceDistance(
                                    R(properties.local_balance), RFloor(targetBalance),
                                    R(properties.capacity)),
                              cfg.minRebalanceDistance),
     variable |-> "balance", actual |-> properties.local_balance,
     target |-> RFloor(targetBalance), max |-> properties.capacity, reason |-> reason]

\* createAction of Actions.getChannelBalanceAction
createBalanceAction(properties, cfg, targetBalance, reason) ==
    LET target == RRound(targetBalance)
        distance == getTargetBalanceDistance(
            R(properties.local_balance), target, R(properties.capacity))
    IN  [entity |-> "channel", id |-> properties.id,
         priority |-> getPriority(1, distance, cfg.minRebalanceDistance),
         variable |-> "balance", actual |-> properties.local_balance,
         target |-> target, max |-> properties.capacity, reason |-> reason]

\* minBalance with Math.floor in the place of Math.round
getMinBalanceFloor(cfg, capacity) == RFloor(RMul(cfg.minChannelBalanceFraction, capacity))

\* minBalance of Actions.getChannelBalanceAction
getMinBalance(cfg, capacity) == RRound(RMul(cfg.minChannelBalanceFraction, capacity))

\* Actions.getChannelBalanceAction.  The reason names the branch taken.
getChannelBalanceAction(channel, cfg) ==
    LET p == channel.properties
        in == channel.inForwards
        ou == channel.outForwards
        capacity == R(p.capacity)
        half == RMul(Rat(1, 2), capacity)
        optimalBalance ==
            RRound(RMul(RDiv(R(ou.totalTokens), R(in.totalTokens + ou.totalTokens)),
                        capacity))
        largestForwardMarginMultiplier == RAdd(R(1), cfg.largestForwardMarginFraction)
        minLargestForwardBalance ==
            RRound(RMul(R(ou.maxTokens), largestForwardMarginMultiplier))
        maxLargestForwardBalance ==
            RRound(RSub(capacity, RMul(R(in.maxTokens), largestForwardMarginMultiplier)))
        minBalance == getMinBalance(cfg, capacity)
        maxBalance == RSub(capacity, minBalance)
    IN  IF IsNaN(optimalBalance) \/ in.count + ou.count < cfg.minChannelForwards
        THEN createBalanceAction(p, cfg, half, "fewer forwards than required")
        ELSE IF RLt(maxLargestForwardBalance, minLargestForwardBalance)
        THEN createBalanceAction(p, cfg, half, "largest forwards exceed the capacity")
        ELSE IF RLt(optimalBalance, minBalance)
        THEN createBalanceAction(p, cfg, minBalance, "below the minimum balance")
        ELSE IF RLt(maxBalance, optimalBalance)
        THEN createBalanceAction(p, cfg, maxBalance, "above the maximum balance")
        ELSE IF RLt(optimalBalance, minLargestForwardBalance)
        THEN createBalanceAction(p, cfg, minLargestForwardBalance,
                                 "below the largest outgoing forward")
        ELSE IF RLt(maxLargestForwardBalance, optimalBalance)
        THEN createBalanceAction(p, cfg, maxLargestForwardBalance,
                                 "above the largest incoming forward")
        ELSE createBalanceAction(p, cfg, optimalBalance, "optimal balance")

\* filterBalanceAction without the test of the priority
filterBalanceActionAll(action) == <<action>>

\* Actions.filterBalanceAction: what the generator yields for one action
filterBalanceAction(action) ==
    IF RLt(R(0), action.priority) THEN <<action>> ELSE <<>>

\* The node balance action with `max` taken from the wrong sum
nodeBalanceActionMaxActual(sums, cfg) ==
    [entity |-> "node", id |-> 0,
     priority |-> getPriority(4, getTargetBalanceDistance(R(sums.actual), sums.target,
                                                          R(sums.max)),
                              cfg.minRebalanceDistance),
     variable |-> "balance", actual |-> sums.actual, target |-> sums.target,
     max |-> sums.actual, reason |-> "sum of the target balances"]

\* The node balance action of Actions.get
nodeBalanceAction(sums, cfg) ==
    LET distance == getTargetBalanceDistance(R(sums.actual), sums.target, R(sums.max))
    IN  [entity |-> "node", id |-> 0,
         priority |-> getPriority(4, distance, cfg.minRebalanceDistance),
         variable |-> "balance", actual |-> sums.actual, target |-> sums.target,
         max |-> sums.max, reason |-> "sum of the target balances"]

-----------------------------------------------------------------------------
(* Actions: the fee actions.  `targets` is Actions.channels reduced to the *)
(* targets, `snapshot` the channels of the snapshot, both in map order.    *)

\* Actions.filterHistory without a done callback: the changes of one kind
ofKind(history, kind) ==
    LET sel(c) == c.kind = kind IN SelectSeq(history, sel)

\* Actions.getFeeRate
getFeeRate(fee, amount) == RRound(RMul(RDiv(fee, RAbs(amount)), R(1000000)))

\* The walk that ends as soon as the total, the current forward included,
\* reaches minAmount
RECURSIVE lastOutWalkEarly(_, _, _, _)
lastOutWalkEarly(history, minAmount, total, forwards) ==
    IF history = <<>> THEN [total |-> total, forwards |-> forwards]
    ELSE LET c == Head(history)
         IN  IF c.kind # OutForward
             THEN lastOutWalkEarly(Tail(history), minAmount, total, forwards)
             ELSE IF RLe(minAmount, R(total + c.amount))
             THEN [total |-> total + c.amount, forwards |-> forwards]
             ELSE lastOutWalkEarly(Tail(history), minAmount, total + c.amount,
                                   Append(forwards, c))

\* The walk of Actions.getLastOutFeeRate: filterHistory with the counting
\* done callback.  An OutForward first adds its amount to total, and ends the
\* walk when total >= minAmount + amount; otherwise it is collected.
RECURSIVE lastOutWalk(_, _, _, _)
lastOutWalk(history, minAmount, total, forwards) ==
    IF history = <<>> THEN [total |-> total, forwards |-> forwards]
    ELSE LET c == Head(history)
         IN  IF c.kind # OutForward
             THEN lastOutWalk(Tail(history), minAmount, total, forwards)
             ELSE IF RLe(RAdd(minAmount, R(c.amount)), R(total + c.amount))
             THEN [total |-> total + c.amount, forwards |-> forwards]
             ELSE lastOutWalk(Tail(history), minAmount, total + c.amount,
                              Append(forwards, c))

\* The rest of Actions.getLastOutFeeRate, after the walk: [defined, value]
lastOutFeeRateOf(walk, minAmount, base_fee) ==
    IF RLe(minAmount, R(walk.total))
    THEN [defined |-> TRUE,
          value |-> getFeeRate(
            R(SumSeq([i \in 1..Len(walk.forwards) |-> walk.forwards[i].fee])
              - Len(walk.forwards) * base_fee),
            R(SumSeq([i \in 1..Len(walk.forwards) |-> walk.forwards[i].amount])))]
    ELSE [defined |-> FALSE, value |-> NaN]

\* capacity * this.config.minOutFeeForwardFraction
minOutAmount(channel, cfg) ==
    RMul(R(channel.properties.capacity), cfg.minOutFeeForwardFraction)

\* Actions.getLastOutFeeRate
getLastOutFeeRate(channel, cfg) ==
    lastOutFeeRateOf(
        lastOutWalk(channel.history, minOutAmount(channel, cfg), 0, <<>>),
        minOutAmount(channel, cfg), channel.properties.base_fee)

\* JavaScript's truthiness of a number that may be undefined
Truthy(x) == x.defined /\ ~IsNaN(x.value) /\ x.value.n # 0

\* Actions.getDistance throws "Channel not found!" when the target is falsy
distanceThrows(targets, i) == IsNaN(targets[i]) \/ targets[i].n = 0

\* Actions.getDistance, where it does not throw
getDistance(targets, channel, balance) ==
    getTargetBalanceDistance(
        R(balance), targets[channel.properties.id], R(channel.properties.capacity))

\* Actions.getCurrentDistance
getCurrentDistance(targets, channel) ==
    getDistance(targets, channel, channel.properties.local_balance)

\* Actions.createFeeAction
createFeeAction(channel, cfg, target, reason) ==
    [entity |-> "channel", id |-> channel.properties.id, priority |-> R(1),
     variable |-> "feeRate", actual |-> channel.properties.fee_rate,
     target |-> target, max |-> cfg.maxFeeRate, reason |-> reason]

\* elapsedMilliseconds < 5 * 60 * 1000, for a time span of `elapsed` days:
\* fewer than 5 of the 24 * 60 minutes of a day
isRecent(elapsed) == elapsed * (24 * 60) < 5

\* Actions.getIncreaseFraction
getIncreaseFraction(cfg, elapsed, rawFraction) ==
    IF isRecent(elapsed) THEN rawFraction
    ELSE RDiv(RMul(rawFraction, RMul(R(elapsed), cfg.feeIncreaseMultiplier)),
              R(cfg.days))

\* getIncreaseFeeAction without the floor of 30 ppm
increaseFeeRateNoFloor(channel, cfg, currentDistance, change, time) ==
    RMin(RRound(RMul(
            getFeeRate(R(change.fee - channel.properties.base_fee), R(change.amount)),
            RAdd(R(1),
                 getIncreaseFraction(
                    cfg, time - change.time,
                    RSub(RAbs(currentDistance), cfg.minFeeIncreaseDistance))))),
         R(cfg.maxFeeRate))

\* getIncreaseFeeAction of Actions.getMaxIncreaseFeeAction: the new fee rate
\* that one outgoing forward calls for
increaseFeeRate(channel, cfg, currentDistance, change, time) ==
    RMin(RMax(RRound(RMul(
                getFeeRate(R(change.fee - channel.properties.base_fee), R(change.amount)),
                RAdd(R(1),
                     getIncreaseFraction(
                        cfg, time - change.time,
                        RSub(RAbs(currentDistance), cfg.minFeeIncreaseDistance))))),
              R(30)),
         R(cfg.maxFeeRate))

\* actions.reduce((p, c) => (p.target > c.target ? p : c)) over the targets
RECURSIVE reduceMax(_, _)
reduceMax(p, rest) ==
    IF rest = <<>> THEN p
    ELSE reduceMax(IF RLt(Head(rest), p) THEN p ELSE Head(rest), Tail(rest))

\* Actions.getMaxIncreaseFeeAction, for a non-empty array of forwards
getMaxIncreaseFeeAction(channel, cfg, currentDistance, forwards, time) ==
    createFeeAction(
        channel, cfg,
        reduceMax(increaseFeeRate(channel, cfg, currentDistance, Head(forwards), time),
                  [i \in 1..(Len(forwards) - 1) |->
                    increaseFeeRate(channel, cfg, currentDistance, forwards[i + 1], time)]),
        "maximum increase")

\* The length of the prefix that filterHistory walks before done is true for
\* the first time, `hits` being the indices where it is
prefixLength(hits, length) == IF hits = {} THEN length ELSE Min(hits) - 1

\* filterHistory(partialHistory, OutForward, done) of getIncreaseAction: the
\* outgoing forwards before the first change that left the balance above
\* -minFeeIncreaseDistance
belowOutForwards(targets, channel, cfg, partialHistory) ==
    ofKind(SubSeq(partialHistory, 1,
                  prefixLength(
                    {i \in 1..Len(partialHistory) :
                        RLt(RNeg(cfg.minFeeIncreaseDistance),
                            getDistance(targets, channel, partialHistory[i].balance))},
                    Len(partialHistory))),
           OutForward)

\* getIncreaseAction of Actions.getFeeAction, given its belowOutForwards: it
\* throws on an empty history and when no outgoing forward is found
increaseActionOf(targets, channel, cfg, partialHistory, time, forwards) ==
    IF partialHistory = <<>> \/ forwards = <<>>
    THEN [thrown |-> TRUE, target |-> NaN]
    ELSE [thrown |-> FALSE,
          target |-> getMaxIncreaseFeeAction(
                        channel, cfg,
                        getDistance(targets, channel, partialHistory[1].balance),
                        forwards, time).target]

\* getIncreaseAction of Actions.getFeeAction: [thrown, target]
getIncreaseAction(targets, channel, cfg, partialHistory, time) ==
    increaseActionOf(targets, channel, cfg, partialHistory, time,
                     belowOutForwards(targets, channel, cfg, partialHistory))

\* [...Actions.filterHistory(history, InRebalance, done)] of
\* getAverageRebalanceRate: the done callback ends the walk at the third
\* InRebalance, before it is collected
minRebalances(all) == IF Len(all) >= 3 THEN SubSeq(all, 1, 2) ELSE all

\* minRebalanceRates.reduce((p, c) => p + c, 0) / minRebalanceRates.length
averageRate(taken) ==
    RDiv(RSum([i \in 1..Len(taken) |-> getFeeRate(R(taken[i].fee), R(taken[i].amount))]),
         R(Len(taken)))

\* getAverageRebalanceRate of Actions.getMinFeeRate
getAverageRebalanceRate(history) == averageRate(minRebalances(ofKind(history, InRebalance)))

\* The decision of Actions.getMinFeeRate, given the three numbers it compares
minFeeRateOf(cfg, rebalanceRate, inflowFraction, realPartnerFeeRate) ==
    IF ~IsFinite(rebalanceRate) THEN R(0)
    ELSE IF ~IsFinite(inflowFraction) \/ RLt(cfg.minInflowFraction, inflowFraction)
    THEN R(0)
    ELSE IF RLe(realPartnerFeeRate, rebalanceRate) THEN rebalanceRate
    ELSE realPartnerFeeRate

\* partnerFeeRate ?? 0
realPartnerFeeRate(channel) ==
    R(IF channel.properties.partnerFeeRate = Undefined THEN 0
      ELSE channel.properties.partnerFeeRate)

\* Actions.getMinFeeRate: the minFeeRate it returns
getMinFeeRate(channel, cfg) ==
    minFeeRateOf(
        cfg, getAverageRebalanceRate(channel.history),
        RDiv(R(channel.inForwards.totalTokens),
             R(channel.outForwards.totalTokens + channel.inForwards.totalTokens)),
        realPartnerFeeRate(channel))

\* checkCreateAction that yields whatever the current fee rate is
checkCreateActionAlways(channel, cfg, newFeeRate, reason) ==
    <<createFeeAction(channel, cfg, newFeeRate, reason)>>

\* Actions.checkCreateAction
checkCreateAction(channel, cfg, newFeeRate, reason) ==
    IF RLt(newFeeRate, R(channel.properties.fee_rate))
    THEN <<createFeeAction(channel, cfg, newFeeRate, reason)>>
    ELSE <<>>

\* elapsedDays of Actions.createFeeDecreaseAction
decreaseElapsedDays(cfg, elapsed) == RSub(R(elapsed), cfg.feeDecreaseWaitDays)

\* newFeeRate of Actions.createFeeDecreaseAction
decreasedFeeRate(cfg, feeRate, elapsedDays) ==
    RRound(RMul(feeRate,
                RSub(R(1), RDiv(elapsedDays, RSub(R(cfg.days), cfg.feeDecreaseWaitDays)))))

\* createFeeDecreaseAction without the lower bound minFeeRate
createFeeDecreaseActionNoMin(channel, cfg, feeRate, elapsed, reason) ==
    IF RLt(R(0), decreaseElapsedDays(cfg, elapsed))
    THEN [yields |-> checkCreateAction(
                        channel, cfg,
                        decreasedFeeRate(cfg, feeRate, decreaseElapsedDays(cfg, elapsed)),
                        reason),
          returns |-> TRUE]
    ELSE [yields |-> <<>>, returns |-> FALSE]

\* Actions.createFeeDecreaseAction: what it yields, and what it returns
createFeeDecreaseAction(channel, cfg, feeRate, elapsed, reason) ==
    IF RLt(R(0), decreaseElapsedDays(cfg, elapsed))
    THEN [yields |-> checkCreateAction(
                        channel, cfg,
                        RMax(getMinFeeRate(channel, cfg),
                             decreasedFeeRate(cfg, feeRate, decreaseElapsedDays(cfg, elapsed))),
                        reason),
          returns |-> TRUE]
    ELSE [yields |-> <<>>, returns |-> FALSE]

\* [...new Set(allOut.map((f) => f.inChannel))].filter(Boolean): the distinct
\* incoming channels of the outgoing forwards, in order of first appearance
RECURSIVE distinctInChannels(_, _)
distinctInChannels(allOut, seen) ==
    IF allOut = <<>> THEN <<>>
    ELSE IF Head(allOut).peer = Undefined \/ Head(allOut).peer \in seen
    THEN distinctInChannels(Tail(allOut), seen)
    ELSE <<Head(allOut).peer>>
         \o distinctInChannels(Tail(allOut), seen \cup {Head(allOut).peer})

\* The loop of Actions.getAboveBoundsInflowStats: the incoming forwards of
\* inChannel that went out through forOutChannel, before the first change
\* that left inChannel's balance below minFeeIncreaseDistance
aboveBoundsInForwards(targets, cfg, forOutChannel, inChannel) ==
    LET sel(c) == c.kind = InForward /\ c.peer = forOutChannel.properties.id
    IN  SelectSeq(
            SubSeq(inChannel.history, 1,
                   prefixLength(
                    {i \in 1..Len(inChannel.history) :
                        RLt(getDistance(targets, inChannel, inChannel.history[i].balance),
                            cfg.minFeeIncreaseDistance)},
                    Len(inChannel.history))),
            sel)

Max(S) == CHOOSE x \in S : \A y \in S : x >= y

\* if (latest !== 0) yield { name, currentDistance, earliest, latest, channel }
inflowStatsYield(inChannel, currentDistance, earliest, latest, channel) ==
    IF latest # 0
    THEN <<[id |-> inChannel.properties.id, currentDistance |-> currentDistance,
            earliest |-> earliest, latest |-> latest, channel |-> channel]>>
    ELSE <<>>

\* What Actions.getAboveBoundsInflowStats yields, given the current distance
\* of inChannel and the forwards its loop visits
inflowStatsOf(cfg, time, inChannel, currentDistance, forwards) ==
    IF RLe(cfg.minFeeIncreaseDistance, currentDistance)
    THEN inflowStatsYield(
            inChannel, currentDistance,
            Min({forwards[i].time : i \in 1..Len(forwards)} \cup {time}),
            Max({forwards[i].time : i \in 1..Len(forwards)} \cup {0}),
            SumSeq([i \in 1..Len(forwards) |-> -forwards[i].amount]))
    ELSE <<>>

\* Actions.getAboveBoundsInflowStats: what it yields for one incoming channel
getAboveBoundsInflowStats(targets, cfg, time, forOutChannel, inChannel) ==
    inflowStatsOf(cfg, time, inChannel, getCurrentDistance(targets, inChannel),
                  aboveBoundsInForwards(targets, cfg, forOutChannel, inChannel))

\* Actions.getAllAboveBoundsInflowStats
RECURSIVE getAllAboveBoundsInflowStats(_, _, _, _, _, _)
getAllAboveBoundsInflowStats(targets, snapshot, cfg, time, outChannel, inChannels) ==
    IF inChannels = <<>> THEN <<>>
    ELSE getAboveBoundsInflowStats(targets, cfg, time, outChannel, snapshot[Head(inChannels)])
         \o getAllAboveBoundsInflowStats(targets, snapshot, cfg, time, outChannel,
                                         Tail(inChannels))

\* getAboveBoundsFeeIncreaseAction throws when getCurrentDistance of one of
\* the incoming channels does
aboveBoundsThrows(targets, channel) ==
    \E i \in 1..Len(channel.history) :
        /\ channel.history[i].kind = OutForward
        /\ channel.history[i].peer # Undefined
        /\ distanceThrows(targets, channel.history[i].peer)

\* totalOutflow of Actions.getAboveBoundsFeeIncreaseAction
totalOutflow(allOut, earliest) ==
    SumSeq([i \in 1..Len(allOut) |->
        IF allOut[i].time >= earliest THEN allOut[i].amount ELSE 0])

\* fraction of Actions.getAboveBoundsFeeIncreaseAction
aboveBoundsFraction(allOut, inflowStats) ==
    RDiv(RSum([i \in 1..Len(inflowStats) |->
                RMul(R(inflowStats[i].channel), inflowStats[i].currentDistance)]),
         R(totalOutflow(allOut, Min({inflowStats[i].earliest : i \in 1..Len(inflowStats)}))))

\* newFeeRate of Actions.getAboveBoundsFeeIncreaseAction
aboveBoundsFeeRate(cfg, lastOutFeeRate, currentDistance, fraction) ==
    RMin(RRound(RMul(lastOutFeeRate,
                     RAdd(R(1),
                          RMul(RSub(fraction, cfg.minFeeIncreaseDistance),
                               RAbs(currentDistance))))),
         R(cfg.maxFeeRate))

\* if (newFeeRate > channel.properties.fee_rate) yield ...
checkCreateIncrease(channel, cfg, newFeeRate, reason) ==
    IF RLt(R(channel.properties.fee_rate), newFeeRate)
    THEN <<createFeeAction(channel, cfg, newFeeRate, reason)>>
    ELSE <<>>

\* if (fraction > this.config.minFeeIncreaseDistance) ...
aboveBoundsIncrease(channel, cfg, lastOutFeeRate, currentDistance, fraction) ==
    IF RLt(cfg.minFeeIncreaseDistance, fraction)
    THEN checkCreateIncrease(
            channel, cfg,
            aboveBoundsFeeRate(cfg, lastOutFeeRate, currentDistance, fraction),
            "above bounds inflow")
    ELSE <<>>

\* if (inflowStats.length > 0) ...
aboveBoundsOf(channel, cfg, lastOutFeeRate, currentDistance, allOut, inflowStats) ==
    IF Len(inflowStats) > 0
    THEN aboveBoundsIncrease(channel, cfg, lastOutFeeRate, currentDistance,
                             aboveBoundsFraction(allOut, inflowStats))
    ELSE <<>>

\* Actions.getAboveBoundsFeeIncreaseAction: what it yields
getAboveBoundsFeeIncreaseAction(targets, snapshot, cfg, time, channel, lastOutFeeRate, allOut) ==
    aboveBoundsOf(
        channel, cfg, lastOutFeeRate, getCurrentDistance(targets, channel), allOut,
        getAllAboveBoundsInflowStats(targets, snapshot, cfg, time, channel,
                                     distinctInChannels(allOut, {})))

\* getNoForwardsFeeAction that acts only on a channel open for more than
\* config.days
getNoForwardsFeeActionLater(channel, cfg, time, feeRate) ==
    IF time - channel.properties.openedAt > cfg.days
    THEN <<createFeeAction(channel, cfg, R(feeRate), "no forwards")>>
    ELSE <<>>

\* Actions.getNoForwardsFeeAction
getNoForwardsFeeAction(channel, cfg, time, feeRate) ==
    IF time - channel.properties.openedAt >= cfg.days
    THEN <<createFeeAction(channel, cfg, R(feeRate), "no forwards")>>
    ELSE <<>>

\* notBelowChanges of Actions.getFeeAction: the changes before the first
\* one that left the balance at or below -minFeeIncreaseDistance
notBelowChanges(targets, channel, cfg) ==
    SubSeq(channel.history, 1,
           prefixLength(
            {i \in 1..Len(channel.history) :
                RLe(getDistance(targets, channel, channel.history[i].balance),
                    RNeg(cfg.minFeeIncreaseDistance))},
            Len(channel.history)))

Yields(actions) == [yields |-> actions, thrown |-> FALSE]

Throws(actions) == [yields |-> actions, thrown |-> TRUE]

\* Actions.getFeeAction, below bounds: if (action.target > fee_rate) yield
feeIncreaseOf(channel, cfg, increase) ==
    IF increase.thrown THEN Throws(<<>>)
    ELSE Yields(checkCreateIncrease(channel, cfg, increase.target, "maximum increase"))

\* The same where the above bounds fee increase is tried whenever the fee
\* decrease has yielded nothing
afterDecreaseUnlessYielded(targets, snapshot, cfg, time, channel, lastOutFeeRate, currentDistance, allOut, decrease) ==
    IF decrease.yields # <<>> THEN Yields(decrease.yields)
    ELSE IF RLe(currentDistance, RNeg(cfg.minRebalanceDistance))
    THEN IF aboveBoundsThrows(targets, channel) THEN Throws(<<>>)
         ELSE Yields(getAboveBoundsFeeIncreaseAction(
                        targets, snapshot, cfg, time, channel, lastOutFeeRate, allOut))
    ELSE Yields(<<>>)

\* Actions.getFeeAction, not below bounds, after the fee decrease: the above
\* bounds fee increase is tried when no decrease was attempted
afterDecrease(targets, snapshot, cfg, time, channel, lastOutFeeRate, currentDistance, allOut, decrease) ==
    IF decrease.returns THEN Yields(decrease.yields)
    ELSE IF RLe(currentDistance, RNeg(cfg.minRebalanceDistance))
    THEN IF aboveBoundsThrows(targets, channel) THEN Throws(<<>>)
         ELSE Yields(getAboveBoundsFeeIncreaseAction(
                        targets, snapshot, cfg, time, channel, lastOutFeeRate, allOut))
    ELSE Yields(<<>>)

\* Actions.getFeeAction, no outgoing forward after the balance left the below
\* bounds zone: the decrease starts at the fee rate proposed at that point
rebalancedDecrease(targets, snapshot, cfg, time, channel, lastOutFeeRate, currentDistance, allOut, notBelowStart, increase) ==
    IF increase.thrown THEN Throws(<<>>)
    ELSE afterDecrease(
            targets, snapshot, cfg, time, channel, lastOutFeeRate, currentDistance, allOut,
            createFeeDecreaseAction(channel, cfg, increase.target, time - notBelowStart,
                                    "rebalanced decrease"))

\* Actions.getFeeAction, not below bounds.  notBelowChanges.at(-1)?.time ?? ""
\* is compared as an ISO string: the empty string is below every time.
notBelowFeeAction(targets, snapshot, cfg, time, channel, lastOutFeeRate, currentDistance, allOut, notBelow) ==
    IF (IF notBelow = <<>> THEN Undefined ELSE notBelow[Len(notBelow)].time)
        > Head(allOut).time
    THEN rebalancedDecrease(
            targets, snapshot, cfg, time, channel, lastOutFeeRate, currentDistance, allOut,
            notBelow[Len(notBelow)].time,
            getIncreaseAction(targets, channel, cfg,
                              Slice(channel.history, Len(notBelow)),
                              notBelow[Len(notBelow)].time))
    ELSE afterDecrease(
            targets, snapshot, cfg, time, channel, lastOutFeeRate, currentDistance, allOut,
            createFeeDecreaseAction(channel, cfg, lastOutFeeRate, time - Head(allOut).time,
                                    "decrease"))

\* Actions.getFeeAction, no last out fee rate: maxFeeRate or 0 is proposed
noForwardsFeeAction(channel, cfg, time, newFeeRate) ==
    IF channel.properties.fee_rate # newFeeRate
    THEN Yields(getNoForwardsFeeAction(channel, cfg, time, newFeeRate))
    ELSE Yields(<<>>)

\* Actions.getFeeAction, once the last out fee rate and the current distance
\* are known
feeActionOf(targets, snapshot, cfg, time, channel, allOut, lastOutFeeRate, currentDistance) ==
    IF allOut # <<>> /\ Truthy(lastOutFeeRate)
    THEN IF RLe(currentDistance, RNeg(cfg.minFeeIncreaseDistance))
         THEN feeIncreaseOf(channel, cfg,
                            getIncreaseAction(targets, channel, cfg, channel.history, time))
         ELSE notBelowFeeAction(
                targets, snapshot, cfg, time, channel, lastOutFeeRate.value,
                currentDistance, allOut, notBelowChanges(targets, channel, cfg))
    ELSE noForwardsFeeAction(
            channel, cfg, time,
            IF RLe(currentDistance, RNeg(cfg.minFeeIncreaseDistance))
            THEN cfg.maxFeeRate ELSE 0)

\* Actions.getFeeAction for the channel at index i: the actions it yields
\* and whether it throws
getFeeAction(targets, snapshot, cfg, time, i) ==
    IF distanceThrows(targets, i) THEN Throws(<<>>)
    ELSE feeActionOf(
            targets, snapshot, cfg, time, snapshot[i],
            ofKind(snapshot[i].history, OutForward),
            getLastOutFeeRate(snapshot[i], cfg),
            getCurrentDistance(targets, snapshot[i]))

-----------------------------------------------------------------------------
(* The snapshot builder: NodeStats projects the forwards and payments of   *)
(* the node into one history per channel.  A node event names the channel  *)
(* it came in through and the one it went out through (Undefined for a     *)
(* channel that is not part of the snapshot).                              *)

\* The change that a node event is for channel i (at most one)
changesOf(i, e) ==
    IF e.type = "forward" /\ e.in = i
    THEN <<[kind |-> InForward, time |-> e.time, amount |-> -e.tokens, fee |-> e.fee,
            peer |-> e.out]>>
    ELSE IF e.type = "forward" /\ e.out = i
    THEN <<[kind |-> OutForward, time |-> e.time, amount |-> e.tokens, fee |-> e.fee,
            peer |-> e.in]>>
    ELSE IF e.type = "rebalance" /\ e.in = i
    THEN <<[kind |-> InRebalance, time |-> e.time, amount |-> -e.tokens, fee |-> e.fee,
            peer |-> Undefined]>>
    ELSE IF e.type = "rebalance" /\ e.out = i
    THEN <<[kind |-> OutRebalance, time |-> e.time, amount |-> e.tokens, fee |-> e.fee,
            peer |-> Undefined]>>
    ELSE IF e.type = "payment" /\ e.out = i
    THEN <<[kind |-> OutPayment, time |-> e.time, amount |-> e.tokens, fee |-> e.fee,
            peer |-> Undefined]>>
    ELSE <<>>

RECURSIVE rawHistory(_, _)
rawHistory(i, events) ==
    IF events = <<>> THEN <<>>
    ELSE changesOf(i, Head(events)) \o rawHistory(i, Tail(events))

\* NodeStats.channels for the channels `properties` and the node events
\* `events` (latest first)
Snapshot(properties, events) ==
    [i \in 1..Len(properties) |-> ChannelStats(properties[i], rawHistory(i, events))]

\* The snapshots a node can produce: every channel's timeline is valid
ValidSnapshot(properties, events) ==
    \A i \in 1..Len(properties) :
        ValidTimeline(properties[i].capacity, properties[i].local_balance,
                      rawHistory(i, events))

\* Sequences over S of length at most n
SeqUpTo(S, n) == UNION {[1..k -> S] : k \in 0..n}

-----------------------------------------------------------------------------
(* The configuration of the reference command line *)

DefaultConfig ==
    [minChannelForwards |-> 20,
     minOutFeeForwardFraction |-> Rat(1, 100),
     minChannelBalanceFraction |-> Rat(25, 100),
     minRebalanceDistance |-> Rat(5, 100),
     largestForwardMarginFraction |-> Rat(1, 10),
     minFeeIncreaseDistance |-> Rat(3, 10),
     feeIncreaseMultiplier |-> R(3),
     feeDecreaseWaitDays |-> R(4),
     minInflowFraction |-> Rat(3, 10),
     maxFeeRate |-> 2500,
     days |-> 30]

-----------------------------------------------------------------------------
(* Actions.get() as a state machine: the constructor, then one step per    *)
(* iteration of its loops.                                                 *)

Targets == [i \in 1..Len(channels) |-> channels[i].target]

\* new Actions(stats, config)
Construct ==
    /\ pc = "new"
    /\ channels' = [i \in 1..Len(stats) |-> getChannelBalanceAction(stats[i], config)]
    /\ pc' = "balance"
    /\ idx' = 1
    /\ acc' = [actual |-> 0, target |-> R(0), max |-> 0]
    /\ UNCHANGED <<config, stats, now, out, nonEngineVars>>

\* The loop of get() summing only the balance actions it yields
YieldBalanceYieldedOnly ==
    /\ pc = "balance"
    /\ idx <= Len(channels)
    /\ acc' = IF RLt(R(0), channels[idx].priority)
              THEN [actual |-> acc.actual + channels[idx].actual,
                    target |-> RAdd(acc.target, channels[idx].target),
                    max |-> acc.max + channels[idx].max]
              ELSE acc
    /\ out' = out \o filterBalanceAction(channels[idx])
    /\ idx' = idx + 1
    /\ UNCHANGED <<config, stats, now, channels, pc, nonEngineVars>>

\* get(): one iteration of the loop over the balance actions
YieldBalance ==
    /\ pc = "balance"
    /\ idx <= Len(channels)
    /\ acc' = [actual |-> acc.actual + channels[idx].actual,
               target |-> RAdd(acc.target, channels[idx].target),
               max |-> acc.max + channels[idx].max]
    /\ out' = out \o filterBalanceAction(channels[idx])
    /\ idx' = idx + 1
    /\ UNCHANGED <<config, stats, now, channels, pc, nonEngineVars>>

\* get(): the node balance action
YieldNode ==
    /\ pc = "balance"
    /\ idx > Len(channels)
    /\ out' = out \o filterBalanceAction(nodeBalanceAction(acc, config))
    /\ pc' = "fee"
    /\ idx' = 1
    /\ UNCHANGED <<config, stats, now, channels, acc, nonEngineVars>>

\* An iteration of getFeeActions() that puts its actions first
feeStepFirst(r) ==
    /\ out' = r.yields \o out
    /\ pc' = IF r.thrown THEN "error" ELSE "fee"

\* What one iteration of getFeeActions() does with the result of getFeeAction
feeStep(r) ==
    /\ out' = out \o r.yields
    /\ pc' = IF r.thrown THEN "error" ELSE "fee"

\* getFeeActions(): one iteration of the loop over the channels
YieldFee ==
    /\ pc = "fee"
    /\ idx <= Len(channels)
    /\ feeStep(getFeeAction(Targets, stats, config, now, idx))
    /\ idx' = idx + 1
    /\ UNCHANGED <<config, stats, now, channels, acc, nonEngineVars>>

\* get() returns
Return ==
    /\ pc = "fee"
    /\ idx > Len(channels)
    /\ pc' = "done"
    /\ UNCHANGED <<config, stats, now, channels, idx, acc, out, nonEngineVars>>

Engine == Construct \/ YieldBalance \/ YieldNode \/ YieldFee \/ Return

\* The fields of a Scheduler, and what the model records about it, at
\* construction
SchedulerFields ==
    /\ idle = TRUE
    /\ timer = {}
    /\ running = {}
    /\ calls = 0
    /\ accepted = {}
    /\ invoked = <<>>
    /\ errors = 0
    /\ thrown = <<>>
    /\ waited = <<>>
    /\ listeners = {}
    /\ received = [l \in {1, 2} |-> 0]
    /\ unhandled = 0

\* No Refresher
NoRefresher ==
    /\ serverEmitters = 0
    /\ emitters = <<>>
    /\ clientListeners = {}
    /\ data = 0
    /\ notified = [l \in {1, 2} |-> <<>>]

\* The main loop does not run
NoMain ==
    /\ mainPc = "none"
    /\ backoffWaited = 0
    /\ logged = 0
    /\ engineRuns = 0
    /\ awaitedChanges = 0
    /\ sessions = 0

\* No NodeInfo
NoNodeInfo ==
    /\ infoForwards = <<>>
    /\ infoPayments = <<>>
    /\ fetches = {}
    /\ lndNow = 0
    /\ infoDays = 0
    /\ changeListeners = 0
    /\ subscribed = FALSE

\* Before new Scheduler(...)
NoScheduler ==
    /\ SchedulerFields
    /\ constructed = FALSE
    /\ delayMilliseconds = NaN

\* new Scheduler(): the default delay
SchedulerInit ==
    /\ SchedulerFields
    /\ constructed = TRUE
    /\ delayMilliseconds = R(10000)

EngineInit(cfg, properties, events, time) ==
    /\ config = cfg
    /\ stats = Snapshot(properties, events)
    /\ now = time
    /\ channels = <<>>
    /\ pc = "new"
    /\ idx = 0
    /\ acc = [actual |-> 0, target |-> R(0), max |-> 0]
    /\ out = <<>>

-----------------------------------------------------------------------------
(* SpecBalance: get() on snapshots of two channels.  The forwards of the   *)
(* first channel came from and went to channels outside the snapshot; the  *)
(* second channel has seen no forward.                                     *)

Now == 40

MaxForwardsB == 3

CapacitiesB == {7, 8}

TokensB == {1, 2, 7}

ConfigsB ==
    {[DefaultConfig EXCEPT !.minChannelForwards = f,
                           !.minChannelBalanceFraction = b,
                           !.largestForwardMarginFraction = m] :
        f \in {0, 2}, b \in {Rat(1, 4), Rat(2, 5)}, m \in {R(0), Rat(1, 10)}}

EventsB ==
    {[type |-> "forward", time |-> Now - 1, tokens |-> t, fee |-> 0, in |-> i, out |-> o] :
        t \in TokensB, i \in {1, Undefined}, o \in {1, Undefined}}

PropertiesB ==
    {[id |-> 1, capacity |-> c, local_balance |-> b, fee_rate |-> 100, base_fee |-> 0,
      partnerFeeRate |-> Undefined, openedAt |-> Now - 1] :
        c \in CapacitiesB, b \in 0..8}

OtherPropertiesB ==
    {[id |-> 2, capacity |-> 8, local_balance |-> b, fee_rate |-> 100, base_fee |-> 0,
      partnerFeeRate |-> Undefined, openedAt |-> Now - 1] : b \in {3, 4}}

InitBalance ==
    /\ \E cfg \in ConfigsB, p \in PropertiesB, q \in OtherPropertiesB,
          events \in SeqUpTo(EventsB, MaxForwardsB) :
        /\ p.local_balance <= p.capacity
        /\ \A k \in 1..Len(events) : events[k].in # events[k].out
        /\ ValidSnapshot(<<p, q>>, events)
        /\ EngineInit(cfg, <<p, q>>, events, Now)
    /\ SchedulerInit
    /\ NoRefresher
    /\ NoNodeInfo
    /\ NoMain
    /\ ret = Undefined

SpecBalance == InitBalance /\ [][Engine]_vars

-----------------------------------------------------------------------------
(* SpecFee: get() on snapshots of two channels with forwards out through  *)
(* the first channel, from the second one or from outside, forwards that   *)
(* came in through either channel, and rebalances into the first one.      *)
(* With the reference configuration every balance target is half the       *)
(* capacity.                                                               *)

MaxEventsF == 2

\* The amounts are multiples of UnitF satoshis; both channels hold 8 units
UnitF == 50000

CapacityF == 8 * UnitF

FeesF == {1, 200}

TimesF == {Now, Now - 10, Now - 20}

ConfigsF == {[DefaultConfig EXCEPT !.maxFeeRate = m] : m \in {2500, 20}}

\* The fee of a forward counts for the channel it leaves through, the fee of
\* a rebalance for the channel it comes in through
EventsF ==
    {[type |-> "forward", time |-> t, tokens |-> UnitF, fee |-> f, in |-> Undefined,
      out |-> 1] : t \in TimesF, f \in FeesF}
    \cup
    {[type |-> "forward", time |-> t, tokens |-> UnitF, fee |-> 1, in |-> i, out |-> o] :
        t \in TimesF, i \in {1, 2}, o \in {1, Undefined}}
    \cup
    {[type |-> "rebalance", time |-> t, tokens |-> UnitF, fee |-> f, in |-> 1,
      out |-> Undefined] : t \in TimesF, f \in FeesF}

\* A channel opened a day ago or 30 days ago; the partner's fee rate is known
\* for an old channel only
PropertiesF ==
    {[id |-> 1, capacity |-> CapacityF, local_balance |-> b * UnitF, fee_rate |-> r,
      base_fee |-> 0, partnerFeeRate |-> po[1], openedAt |-> po[2]] :
        b \in {0, 2, 3, 4, 5, 8}, r \in {5, 5000}, po \in {<<Undefined, Now - 1>>, <<Undefined, Now - 30>>, <<3000, Now - 30>>}}

OtherPropertiesF ==
    {[id |-> 2, capacity |-> CapacityF, local_balance |-> b * UnitF, fee_rate |-> 100,
      base_fee |-> 0, partnerFeeRate |-> Undefined, openedAt |-> Now - 30] : b \in {4, 8}}

\* The node reports its events latest first
LatestFirst(events) ==
    \A k \in 1..(Len(events) - 1) : events[k].time >= events[k + 1].time

InitFee ==
    /\ \E events \in SeqUpTo(EventsF, MaxEventsF) :
        /\ LatestFirst(events)
        /\ \A k \in 1..Len(events) : events[k].in # events[k].out
        /\ \E cfg \in ConfigsF, p \in PropertiesF, q \in OtherPropertiesF :
            /\ \A k \in 1..Len(events) : events[k].time >= p.openedAt
            /\ ValidSnapshot(<<p, q>>, events)
            /\ EngineInit(cfg, <<p, q>>, events, Now)
    /\ SchedulerInit
    /\ NoRefresher
    /\ NoNodeInfo
    /\ NoMain
    /\ ret = Undefined

SpecFee == InitFee /\ [][Engine]_vars

-----------------------------------------------------------------------------
(* SpecConfig: get() on the snapshots of SpecFee with at most one event,   *)
(* for the reference configuration and for configurations outside the     *)
(* documented bounds.                                                      *)

MaxEventsC == 1

ConfigsC ==
    {DefaultConfig}
    \cup {[DefaultConfig EXCEPT !.minRebalanceDistance = d] : d \in {R(0), Rat(-1, 20)}}
    \cup {[DefaultConfig EXCEPT !.minFeeIncreaseDistance = d] : d \in {Rat(1, 20), Rat(1, 100)}}
    \cup {[DefaultConfig EXCEPT !.feeDecreaseWaitDays = d] : d \in {R(30), R(40)}}

InitConfig ==
    /\ \E events \in SeqUpTo(EventsF, MaxEventsC) :
        /\ \A k \in 1..Len(events) : events[k].in # events[k].out
        /\ \E cfg \in ConfigsC, p \in PropertiesF, q \in OtherPropertiesF :
            /\ \A k \in 1..Len(events) : events[k].time >= p.openedAt
            /\ ValidSnapshot(<<p, q>>, events)
            /\ EngineInit(cfg, <<p, q>>, events, Now)
    /\ SchedulerInit
    /\ NoRefresher
    /\ NoNodeInfo
    /\ NoMain
    /\ ret = Undefined

SpecConfig == InitConfig /\ [][Engine]_vars

-----------------------------------------------------------------------------
(* SpecPayment: get() on snapshots of one channel with forwards out        *)
(* through it, some of which paid no fee, and payments sent through it.    *)
(* The channel was opened 30 or 29 days ago, and its fee rate is 0, 5 or    *)
(* the maximum.                                                            *)

MaxEventsP == 2

EventsP ==
    {[type |-> "forward", time |-> t, tokens |-> UnitF, fee |-> f, in |-> Undefined,
      out |-> 1] : t \in TimesF, f \in {0, 200}}
    \cup
    {[type |-> "payment", time |-> t, tokens |-> UnitF, fee |-> 0, in |-> Undefined,
      out |-> 1] : t \in TimesF}

PropertiesP ==
    {[id |-> 1, capacity |-> CapacityF, local_balance |-> b * UnitF, fee_rate |-> r,
      base_fee |-> 0, partnerFeeRate |-> Undefined, openedAt |-> o] :
        b \in {2, 3, 4, 6}, r \in {0, 5, 2500}, o \in {Now - 30, Now - 29}}

InitPayment ==
    /\ \E events \in SeqUpTo(EventsP, MaxEventsP), p \in PropertiesP :
        /\ LatestFirst(events)
        /\ ValidSnapshot(<<p>>, events)
        /\ EngineInit(DefaultConfig, <<p>>, events, Now)
    /\ SchedulerInit
    /\ NoRefresher
    /\ NoNodeInfo
    /\ NoMain
    /\ ret = Undefined

SpecPayment == InitPayment /\ [][Engine]_vars

-----------------------------------------------------------------------------
(* SpecRebalance: getAverageRebalanceRate of getMinFeeRate applied to a    *)
(* channel with up to MaxEventsR rebalances of 10000 satoshis into it,     *)
(* which paid 500 to 800 ppm.                                              *)

MaxEventsR == 3

EventsR ==
    {[type |-> "rebalance", time |-> Now - 1, tokens |-> 10000, fee |-> f, in |-> 1,
      out |-> Undefined] : f \in 5..8}

PropertiesR ==
    [id |-> 1, capacity |-> 100000, local_balance |-> 50000, fee_rate |-> 100,
     base_fee |-> 0, partnerFeeRate |-> Undefined, openedAt |-> Now - 30]

\* getAverageRebalanceRate() is called
ApplyAverageRebalanceRate ==
    /\ pc = "new"
    /\ ret' = getAverageRebalanceRate(stats[1].history)
    /\ pc' = "done"
    /\ UNCHANGED <<config, stats, now, channels, idx, acc, out, schedulerVars, refresherVars,
                   nodeInfoVars, mainVars>>

InitRebalance ==
    /\ \E events \in SeqUpTo(EventsR, MaxEventsR) :
        /\ ValidSnapshot(<<PropertiesR>>, events)
        /\ EngineInit(DefaultConfig, <<PropertiesR>>, events, Now)
    /\ SchedulerInit
    /\ NoRefresher
    /\ NoNodeInfo
    /\ NoMain
    /\ ret = Undefined

SpecRebalance == InitRebalance /\ [][ApplyAverageRebalanceRate]_vars

-----------------------------------------------------------------------------
(* SpecLastOut: getLastOutFeeRate applied to a channel of capacity 100     *)
(* with up to MaxEventsL forwards of 1 to 3 tokens.                        *)

MaxEventsL == 3

EventsL ==
    {[type |-> "forward", time |-> Now - 1, tokens |-> t, fee |-> f, in |-> Undefined,
      out |-> 1] : t \in 1..3, f \in {0, 2}}
    \cup
    {[type |-> "forward", time |-> Now - 1, tokens |-> 1, fee |-> 1, in |-> 1,
      out |-> Undefined]}

PropertiesL ==
    {[id |-> 1, capacity |-> 100, local_balance |-> 50, fee_rate |-> 100, base_fee |-> b,
      partnerFeeRate |-> Undefined, openedAt |-> Now - 30] : b \in {0, 1}}

ConfigsL ==
    {[DefaultConfig EXCEPT !.minOutFeeForwardFraction = f] :
        f \in {R(0), Rat(1, 100), Rat(3, 100), Rat(7, 200), Rat(1, 10)}}

\* getLastOutFeeRate(channel) is called
ApplyLastOut ==
    /\ pc = "new"
    /\ ret' = getLastOutFeeRate(stats[1], config)
    /\ pc' = "done"
    /\ UNCHANGED <<config, stats, now, channels, idx, acc, out, schedulerVars, refresherVars,
                   nodeInfoVars, mainVars>>

InitLastOut ==
    /\ \E cfg \in ConfigsL, p \in PropertiesL, events \in SeqUpTo(EventsL, MaxEventsL) :
        /\ ValidSnapshot(<<p>>, events)
        /\ EngineInit(cfg, <<p>>, events, Now)
    /\ SchedulerInit
    /\ NoRefresher
    /\ NoNodeInfo
    /\ NoMain
    /\ ret = Undefined

SpecLastOut == InitLastOut /\ [][ApplyLastOut]_vars

-----------------------------------------------------------------------------
(* The Scheduler.  The n-th invocation of call() passes the function n.    *)
(* A value handed to the constructor is [type, num, str]: its typeof, its  *)
(* number (for a number) and its text as a sequence of characters.         *)

MaxCalls == 5

\* The onError listeners that may be registered
Listeners == {1, 2}

DigitChars == <<"0", "1", "2", "3", "4", "5", "6", "7", "8", "9">>

\* The decimal digits of a natural number
RECURSIVE digits(_)
digits(n) ==
    IF n < 10 THEN <<DigitChars[n + 1]>>
    ELSE digits(n \div 10) \o digits(n % 10)

\* `${value}` in a template literal
toString(value) ==
    IF value.type # "number" THEN value.str
    ELSE IF IsNaN(value.num) THEN <<"N", "a", "N">>
    ELSE IF value.num.n < 0 THEN <<"-">> \o digits(-value.num.n)
    ELSE digits(value.num.n)

\* What setTimeout makes of its delay argument: a delay that is not within
\* 1..2^31-1 is set to 1
timeoutOf(delay) ==
    IF IsNaN(delay) \/ RLt(delay, R(1)) \/ RLt(R(2147483647), delay) THEN 1
    ELSE RFloor(delay).n

\* new Scheduler(value) that accepts every number
NewSchedulerAnyNumber(value) ==
    /\ ~constructed /\ thrown = <<>>
    /\ IF value.type = "undefined"
       THEN constructed' = TRUE /\ delayMilliseconds' = R(10000) /\ UNCHANGED thrown
       ELSE IF value.type # "number"
       THEN thrown' = <<"delayMilliseconds is invalid: ">> \o toString(value) \o <<".">>
            /\ UNCHANGED <<constructed, delayMilliseconds>>
       ELSE constructed' = TRUE /\ delayMilliseconds' = value.num /\ UNCHANGED thrown
    /\ UNCHANGED <<idle, timer, running, calls, accepted, invoked, errors, waited,
                   listeners, received, unhandled>>

\* new Scheduler(value): the default applies to an omitted (undefined)
\* argument; for anything but a positive number the constructor throws, and
\* no object comes into being
NewScheduler(value) ==
    /\ ~constructed /\ thrown = <<>>
    /\ IF value.type = "undefined"
       THEN constructed' = TRUE /\ delayMilliseconds' = R(10000) /\ UNCHANGED thrown
       ELSE IF value.type # "number" \/ RLe(value.num, R(0))
       THEN thrown' = <<"delayMilliseconds is invalid: ">> \o toString(value) \o <<".">>
            /\ UNCHANGED <<constructed, delayMilliseconds>>
       ELSE constructed' = TRUE /\ delayMilliseconds' = value.num /\ UNCHANGED thrown
    /\ UNCHANGED <<idle, timer, running, calls, accepted, invoked, errors, waited,
                   listeners, received, unhandled>>

\* Scheduler.onError(listener)
OnError(listener) ==
    /\ constructed
    /\ listener \notin listeners
    /\ listeners' = listeners \cup {listener}
    /\ UNCHANGED <<idle, timer, running, calls, accepted, invoked, errors, waited,
                   received, unhandled, constructed, delayMilliseconds, thrown>>

\* Scheduler.removeAllListeners()
RemoveAllListeners ==
    /\ constructed
    /\ listeners' = {}
    /\ UNCHANGED <<idle, timer, running, calls, accepted, invoked, errors, waited,
                   received, unhandled, constructed, delayMilliseconds, thrown>>

\* call(func) that starts a delay whether idle or not
CallAlways ==
    /\ constructed
    /\ calls < MaxCalls
    /\ calls' = calls + 1
    /\ idle' = FALSE
    /\ timer' = timer \cup {calls + 1}
    /\ accepted' = accepted \cup {calls + 1}
    /\ waited' = [f \in accepted \cup {calls + 1} |-> IF f = calls + 1 THEN 0 ELSE waited[f]]
    /\ UNCHANGED <<running, invoked, errors, listeners, received, unhandled,
                   constructed, delayMilliseconds, thrown>>

\* Scheduler.call(func): if idle, delay(func) runs up to its first await, so
\* idle is false and the timer is set when call() returns
Call ==
    /\ constructed
    /\ calls < MaxCalls
    /\ calls' = calls + 1
    /\ IF idle
       THEN /\ idle' = FALSE
            /\ timer' = timer \cup {calls + 1}
            /\ accepted' = accepted \cup {calls + 1}
            /\ waited' = [f \in accepted \cup {calls + 1} |->
                             IF f = calls + 1 THEN 0 ELSE waited[f]]
       ELSE UNCHANGED <<idle, timer, accepted, waited>>
    /\ UNCHANGED <<running, invoked, errors, listeners, received, unhandled,
                   constructed, delayMilliseconds, thrown>>

\* Time passes while a timer is pending: up to the first millisecond, the
\* last millisecond before the timeout, or the timeout
Tick(e) ==
    /\ constructed
    /\ e >= 1
    /\ \E f \in timer : waited[f] < e
    /\ waited' = [f \in accepted |-> IF f \in timer /\ waited[f] < e THEN e ELSE waited[f]]
    /\ UNCHANGED <<idle, timer, running, calls, accepted, invoked, errors, listeners,
                   received, unhandled, constructed, delayMilliseconds, thrown>>

\* Scheduler.delay with a timeout that resolves at once
TimerFiresAtOnce ==
    \E f \in timer :
        /\ timer' = timer \ {f}
        /\ invoked' = Append(invoked, f)
        /\ running' = running \cup {f}
        /\ UNCHANGED <<idle, calls, accepted, errors, waited, listeners, received,
                       unhandled, constructed, delayMilliseconds, thrown>>

\* Scheduler.delay: the timeout has passed, the setTimeout promise resolves,
\* func is invoked and its result awaited
TimerFires ==
    \E f \in timer :
        /\ waited[f] >= timeoutOf(delayMilliseconds)
        /\ timer' = timer \ {f}
        /\ invoked' = Append(invoked, f)
        /\ running' = running \cup {f}
        /\ UNCHANGED <<idle, calls, accepted, errors, waited, listeners, received,
                       unhandled, constructed, delayMilliseconds, thrown>>

\* Scheduler.delay: the awaited result of func fulfils; finally sets idle
FuncReturns ==
    \E f \in running :
        /\ running' = running \ {f}
        /\ idle' = TRUE
        /\ UNCHANGED <<timer, calls, accepted, invoked, errors, waited, listeners,
                       received, unhandled, constructed, delayMilliseconds, thrown>>

\* Scheduler.delay without the finally clause: after a failure idle stays false
FuncThrowsStaysBusy ==
    \E f \in running :
        /\ running' = running \ {f}
        /\ errors' = errors + 1
        /\ IF listeners = {}
           THEN unhandled' = unhandled + 1 /\ UNCHANGED received
           ELSE received' = [l \in Listeners |->
                                IF l \in listeners THEN received[l] + 1 ELSE received[l]]
                /\ UNCHANGED unhandled
        /\ UNCHANGED <<idle, timer, calls, accepted, invoked, waited, listeners,
                       constructed, delayMilliseconds, thrown>>

\* Scheduler.delay: func throws or its result rejects.  The catch clause
\* emits "error": every listener receives it; an EventEmitter without a
\* listener for "error" throws the error instead, which rejects the promise
\* of delay() that call() has discarded.  finally sets idle in both cases.
FuncThrows ==
    \E f \in running :
        /\ running' = running \ {f}
        /\ errors' = errors + 1
        /\ IF listeners = {}
           THEN unhandled' = unhandled + 1 /\ UNCHANGED received
           ELSE received' = [l \in Listeners |->
                                IF l \in listeners THEN received[l] + 1 ELSE received[l]]
                /\ UNCHANGED unhandled
        /\ idle' = TRUE
        /\ UNCHANGED <<timer, calls, accepted, invoked, waited, listeners,
                       constructed, delayMilliseconds, thrown>>

\* The values handed to the constructor: none, null, a string, and numbers
DelayArgs ==
    {[type |-> "undefined", num |-> NaN, str |-> <<"u", "n", "d", "e", "f", "i", "n", "e", "d">>],
     [type |-> "object", num |-> NaN, str |-> <<"n", "u", "l", "l">>],
     [type |-> "string", num |-> NaN, str |-> <<"1", "0", "0", "0">>]}
    \cup {[type |-> "number", num |-> R(n), str |-> <<>>] : n \in {-10, -1, 0, 1, 3}}
    \cup {[type |-> "number", num |-> NaN, str |-> <<>>]}

SchedulerNext ==
    \/ \E value \in DelayArgs : NewScheduler(value) /\ UNCHANGED nonSchedulerVars
    \/ \E listener \in Listeners : OnError(listener) /\ UNCHANGED nonSchedulerVars
    \/ RemoveAllListeners /\ UNCHANGED nonSchedulerVars
    \/ Call /\ UNCHANGED nonSchedulerVars
    \/ \E e \in {1, timeoutOf(delayMilliseconds) - 1, timeoutOf(delayMilliseconds)} :
        Tick(e) /\ UNCHANGED nonSchedulerVars
    \/ TimerFires /\ UNCHANGED nonSchedulerVars
    \/ FuncReturns /\ UNCHANGED nonSchedulerVars
    \/ FuncThrows /\ UNCHANGED nonSchedulerVars

\* An engine that is not asked for actions, and no Scheduler yet
InitScheduler ==
    /\ EngineInit(DefaultConfig, <<>>, <<>>, Now)
    /\ NoScheduler
    /\ NoRefresher
    /\ NoNodeInfo
    /\ NoMain
    /\ ret = Undefined

SpecScheduler == InitScheduler /\ [][SchedulerNext]_vars

-----------------------------------------------------------------------------
-----------------------------------------------------------------------------
(* The Refresher: data that is refreshed, after the Scheduler's delay,     *)
(* when the server emits a change, with listeners for "changed" and        *)
(* "error".  A server emitter is [error, changed]: the listeners it has    *)
(* for "error" and the number of listeners it has for the server's change  *)
(* event.                                                                  *)

MaxEmitters == 2

MaxServerErrors == 1

MaxServerChanges == 3

\* The name every notification carries
RefresherName == "test"

\* Refresher.serverEmitters: the emitters are created when first needed
EnsureEmitters ==
    IF serverEmitters # 0 THEN emitters
    ELSE Append(emitters, [error |-> {}, changed |-> 0])

\* The emitters in use once they have been needed
CurrentEmitters == IF serverEmitters # 0 THEN serverEmitters ELSE Len(emitters) + 1

\* Refresher.onChanged(listener) with one more server listener per registration
RefresherOnChangedEach(listener) ==
    /\ listener \notin clientListeners
    /\ serverEmitters # 0 \/ Len(emitters) < MaxEmitters
    /\ clientListeners' = clientListeners \cup {listener}
    /\ serverEmitters' = CurrentEmitters
    /\ emitters' = [EnsureEmitters EXCEPT ![CurrentEmitters].changed = @ + 1]
    /\ UNCHANGED <<data, notified, schedulerVars>>

\* Refresher.onChanged(listener): the first listener makes the server's
\* change event schedule a refresh
RefresherOnChanged(listener) ==
    /\ listener \notin clientListeners
    /\ serverEmitters # 0 \/ Len(emitters) < MaxEmitters
    /\ clientListeners' = clientListeners \cup {listener}
    /\ serverEmitters' = CurrentEmitters
    /\ emitters' = IF clientListeners = {}
                   THEN [EnsureEmitters EXCEPT ![CurrentEmitters].changed = @ + 1]
                   ELSE EnsureEmitters
    /\ UNCHANGED <<data, notified, schedulerVars>>

\* Refresher.onError(listener): the listener hears the errors of the server
\* emitters and those of the Scheduler
RefresherOnError(listener) ==
    /\ serverEmitters # 0 \/ Len(emitters) < MaxEmitters
    /\ serverEmitters' = CurrentEmitters
    /\ emitters' = [EnsureEmitters EXCEPT ![CurrentEmitters].error = @ \cup {listener}]
    /\ OnError(listener)
    /\ UNCHANGED <<clientListeners, data, notified>>

\* Refresher.removeAllListeners(): the emitters are released
RefresherRemoveAllListeners ==
    /\ clientListeners' = {}
    /\ emitters' = IF serverEmitters = 0 THEN emitters
                   ELSE [emitters EXCEPT ![serverEmitters] = [error |-> {}, changed |-> 0]]
    /\ serverEmitters' = 0
    /\ RemoveAllListeners
    /\ UNCHANGED <<data, notified>>

\* A server emitter emits its change event: each of its listeners calls
\* scheduler.call with the function that refreshes and notifies
ServerChanged(e) ==
    /\ emitters[e].changed > 0
    /\ calls < MaxServerChanges
    /\ Call
    /\ UNCHANGED refresherVars

\* A server emitter emits "error": its listeners are called at once
ServerError(e) ==
    /\ emitters[e].error # {}
    /\ SumSeq([l \in 1..2 |-> received[l]]) - errors - unhandled < MaxServerErrors
    /\ received' = [l \in Listeners |->
                      IF l \in emitters[e].error THEN received[l] + 1 ELSE received[l]]
    /\ UNCHANGED <<idle, timer, running, calls, accepted, invoked, errors, constructed,
                   delayMilliseconds, thrown, waited, listeners, unhandled, refresherVars>>

\* The scheduled function is invoked: refresh() is under way
RefreshStarts ==
    /\ TimerFires
    /\ UNCHANGED refresherVars

\* refresh() fulfils: the data is new, and every onChanged listener is
\* called with the name of the refresher
RefreshFulfils ==
    /\ FuncReturns
    /\ data' = data + 1
    /\ notified' = [l \in Listeners |->
                      IF l \in clientListeners THEN Append(notified[l], RefresherName)
                      ELSE notified[l]]
    /\ UNCHANGED <<serverEmitters, emitters, clientListeners>>

\* refresh() rejects: the Scheduler emits the error
RefreshRejects ==
    /\ FuncThrows
    /\ UNCHANGED refresherVars

RefresherNext ==
    \/ \E l \in Listeners : RefresherOnChanged(l) /\ UNCHANGED nonRefresherVars
    \/ \E l \in Listeners : RefresherOnError(l) /\ UNCHANGED nonRefresherVars
    \/ RefresherRemoveAllListeners /\ UNCHANGED nonRefresherVars
    \/ \E e \in 1..Len(emitters) : ServerChanged(e) /\ UNCHANGED nonRefresherVars
    \/ \E e \in 1..Len(emitters) : ServerError(e) /\ UNCHANGED nonRefresherVars
    \/ \E e \in {1, timeoutOf(delayMilliseconds) - 1, timeoutOf(delayMilliseconds)} :
        Tick(e) /\ UNCHANGED <<refresherVars, nonRefresherVars>>
    \/ RefreshStarts /\ UNCHANGED nonRefresherVars
    \/ RefreshFulfils /\ UNCHANGED nonRefresherVars
    \/ RefreshRejects /\ UNCHANGED nonRefresherVars

\* The delays of the Refreshers created: the default, and the one of the tests
DelaysR == {10000, 1000}

\* After Refresher.init(...): the data has been fetched once, no emitter exists
InitRefresher ==
    /\ EngineInit(DefaultConfig, <<>>, <<>>, Now)
    /\ SchedulerFields
    /\ constructed = TRUE
    /\ \E d \in DelaysR : delayMilliseconds = R(d)
    /\ serverEmitters = 0
    /\ emitters = <<>>
    /\ clientListeners = {}
    /\ data = 1
    /\ notified = [l \in Listeners |-> <<>>]
    /\ NoNodeInfo
    /\ NoMain
    /\ ret = Undefined

SpecRefresher == InitRefresher /\ [][RefresherNext]_vars

-----------------------------------------------------------------------------
(* NodeInfo: the forwards and payments of the last `days` days, kept up to *)
(* date by the handlers of the node's events.  An element is represented   *)
(* by its created_at, and days is counted in the unit of created_at.       *)

MaxNodeTime == 3

MaxFetches == 2

MaxElements == 4

MaxChangeListeners == 2

\* Array.prototype.sort by created_at: insertion of x into a sorted array,
\* after the elements that are not later
RECURSIVE insertSorted(_, _)
insertSorted(x, sorted) ==
    IF sorted = <<>> THEN <<x>>
    ELSE IF x < Head(sorted) THEN <<x>> \o sorted
    ELSE <<Head(sorted)>> \o insertSorted(x, Tail(sorted))

\* toSortedArray(generator): the elements the generator yields, sorted
RECURSIVE toSortedArray(_)
toSortedArray(generated) ==
    IF generated = <<>> THEN <<>>
    ELSE insertSorted(generated[Len(generated)],
                      toSortedArray(SubSeq(generated, 1, Len(generated) - 1)))

\* NodeInfoImpl.removeOutdatedElements: findIndex gives -1 when no element
\* is recent enough, and splice(0, -1) deletes nothing
removeOutdatedElements(array, after) ==
    LET recent == {i \in 1..Len(array) : array[i] >= after}
        deleteCount == IF recent = {} THEN -1 ELSE Min(recent) - 1
    IN  IF deleteCount <= 0 THEN array ELSE SubSeq(array, deleteCount + 1, Len(array))

\* NodeInfoImpl.on("change", listener): the listener is added, and if it is
\* then the only one the handlers are attached to the emitters of the node
NodeInfoOn ==
    /\ changeListeners < MaxChangeListeners
    /\ changeListeners' = changeListeners + 1
    /\ subscribed' = IF changeListeners + 1 = 1 THEN TRUE ELSE subscribed
    /\ UNCHANGED <<infoForwards, infoPayments, fetches, lndNow, infoDays>>

\* NodeInfoImpl.off("change", listener), with a listener that is registered
\* or one that is not: if there is exactly one listener the handlers are
\* detached from the emitters of the node; then the listener is removed, if
\* it is registered
NodeInfoOff(registered) ==
    /\ registered => changeListeners > 0
    /\ subscribed' = IF changeListeners = 1 THEN FALSE ELSE subscribed
    /\ changeListeners' = IF registered THEN changeListeners - 1 ELSE changeListeners
    /\ UNCHANGED <<infoForwards, infoPayments, fetches, lndNow, infoDays>>

\* Time passes
NodeTimePasses ==
    /\ lndNow < MaxNodeTime
    /\ lndNow' = lndNow + 1
    /\ UNCHANGED <<infoForwards, infoPayments, fetches, changeListeners, subscribed,
                   infoDays>>

\* The node emits "forward" (kind "forwards") or "confirmed" (kind
\* "payments") for an element created now, and the handlers are attached:
\* handleForward, for a confirmed
\* forward, or handlePayment asks the node for the elements of that time and
\* awaits the answer
NodeEvent(kind, is_confirmed) ==
    /\ subscribed
    /\ Cardinality(fetches) < MaxFetches
    /\ Len(infoForwards) + Len(infoPayments) + Cardinality(fetches) < MaxElements
    /\ fetches' = IF kind = "payments" \/ is_confirmed
                  THEN fetches \cup {[kind |-> kind, at |-> lndNow,
                                      n |-> Min((1..MaxFetches) \
                                                {f.n : f \in fetches})]}
                  ELSE fetches
    /\ UNCHANGED <<infoForwards, infoPayments, lndNow, changeListeners, subscribed,
                   infoDays>>

\* The answer to a request arrives, with the one element of that time:
\* appendAndEmit pushes it, and emitChange removes the outdated elements
FetchReturns(fetch) ==
    /\ fetch \in fetches
    /\ fetches' = fetches \ {fetch}
    /\ infoForwards' = removeOutdatedElements(
                      IF fetch.kind = "forwards"
                      THEN infoForwards \o toSortedArray(<<fetch.at>>) ELSE infoForwards,
                      lndNow - infoDays)
    /\ infoPayments' = removeOutdatedElements(
                      IF fetch.kind = "payments"
                      THEN infoPayments \o toSortedArray(<<fetch.at>>) ELSE infoPayments,
                      lndNow - infoDays)
    /\ UNCHANGED <<lndNow, changeListeners, subscribed, infoDays>>

NodeInfoNext ==
    \/ NodeInfoOn /\ UNCHANGED nonNodeInfoVars
    \/ \E registered \in BOOLEAN : NodeInfoOff(registered) /\ UNCHANGED nonNodeInfoVars
    \/ NodeTimePasses /\ UNCHANGED nonNodeInfoVars
    \/ \E kind \in {"forwards", "payments"}, is_confirmed \in BOOLEAN :
        NodeEvent(kind, is_confirmed) /\ UNCHANGED nonNodeInfoVars
    \/ \E fetch \in fetches : FetchReturns(fetch) /\ UNCHANGED nonNodeInfoVars

\* What getForwards and getPayments yield for the initial range, in the order
\* of the pages
GeneratedN == SeqUpTo({-1, 0}, 2)

\* getNodeInfo({ days }): the forwards and payments of the last days, sorted
InitNodeInfo ==
    /\ EngineInit(DefaultConfig, <<>>, <<>>, Now)
    /\ SchedulerInit
    /\ NoRefresher
    /\ NoMain
    /\ ret = Undefined
    /\ infoDays \in {1, 2}
    /\ lndNow = 0
    /\ \E generated \in GeneratedN : infoForwards = toSortedArray(generated)
    /\ \E generated \in GeneratedN : infoPayments = toSortedArray(generated)
    /\ fetches = {}
    /\ changeListeners = 0
    /\ subscribed = FALSE

SpecNodeInfo == InitNodeInfo /\ [][NodeInfoNext]_vars

-----------------------------------------------------------------------------
(* The main loop of the program.  mainPc is the await at which the loop    *)
(* stands, or the synchronous code it is about to run once the awaited     *)
(* promise has settled: that code runs before any timer or event of the    *)
(* node is handled.  info is one Refresher with its Scheduler; the loop    *)
(* listens with listener 1.  The timers advance independently, and the     *)
(* info of an earlier connection is not followed further.                  *)

MaxFailures == 2

\* The delay before the loop reconnects
ReconnectDelay == 10000

\* The synchronous code of the loop is about to run
SyncPcs == {"engine", "onChanged", "onError", "resolved", "rejected"}

\* The node and the timers act only between the synchronous runs of the loop
MainAwaits == mainPc \notin SyncPcs /\ mainPc # "exited"

\* catch (error_) { error(error_); } log("Attempting to reconnect..."), and
\* the timeout of the reconnect is set
MainCatch ==
    /\ logged < MaxFailures
    /\ logged' = logged + 1
    /\ mainPc' = "backoff"
    /\ backoffWaited' = 0

\* await connectLnd() settles
MainConnect(ok) ==
    /\ mainPc = "connect"
    /\ IF ok THEN mainPc' = "getInfo" /\ UNCHANGED <<logged, backoffWaited>>
       ELSE MainCatch
    /\ UNCHANGED <<engineRuns, awaitedChanges, sessions, schedulerVars, refresherVars>>

\* The info that NodeInfo.get returns: its Refresher and Scheduler are new
FreshInfo ==
    /\ idle' = TRUE
    /\ timer' = {}
    /\ running' = {}
    /\ calls' = 0
    /\ accepted' = {}
    /\ invoked' = <<>>
    /\ errors' = 0
    /\ thrown' = <<>>
    /\ waited' = <<>>
    /\ listeners' = {}
    /\ received' = [l \in Listeners |-> 0]
    /\ constructed' = TRUE
    /\ delayMilliseconds' = R(10000)
    /\ serverEmitters' = 0
    /\ emitters' = <<>>
    /\ clientListeners' = {}
    /\ data' = 1
    /\ notified' = [l \in Listeners |-> <<>>]
    /\ UNCHANGED unhandled

\* await getInfo(lnd) settles
MainGetInfo(ok) ==
    /\ mainPc = "getInfo"
    /\ IF ok THEN mainPc' = "delete" /\ FreshInfo /\ UNCHANGED <<logged, backoffWaited>>
       ELSE MainCatch /\ UNCHANGED <<schedulerVars, refresherVars>>
    /\ UNCHANGED <<engineRuns, awaitedChanges, sessions>>

\* await deleteOldFailedPayments(lnd, days) settles
MainDeleteOldFailedPayments(ok) ==
    /\ mainPc = "delete"
    /\ IF ok THEN mainPc' = "engine" /\ sessions' = sessions + 1
                  /\ UNCHANGED <<logged, backoffWaited>>
       ELSE MainCatch /\ UNCHANGED sessions
    /\ UNCHANGED <<engineRuns, awaitedChanges, schedulerVars, refresherVars>>

\* NodeStats.get(info) and [...new Actions(stats, config).get()]
MainRunEngine(ok) ==
    /\ mainPc = "engine"
    /\ engineRuns' = engineRuns + 1
    /\ IF ok THEN mainPc' = "onChanged" /\ UNCHANGED <<logged, backoffWaited>>
       ELSE MainCatch
    /\ UNCHANGED <<awaitedChanges, sessions, schedulerVars, refresherVars>>

\* info.onChanged(resolve)
MainOnChanged ==
    /\ mainPc = "onChanged"
    /\ RefresherOnChanged(1)
    /\ mainPc' = "onError"
    /\ UNCHANGED <<backoffWaited, logged, engineRuns, awaitedChanges, sessions>>

\* info.onError(reject), and the promise is awaited
MainOnError ==
    /\ mainPc = "onError"
    /\ RefresherOnError(1)
    /\ mainPc' = "waiting"
    /\ UNCHANGED <<backoffWaited, logged, engineRuns, awaitedChanges, sessions>>

\* The promise has settled: log(`${changed} has changed.`) if it fulfilled,
\* finally { info.removeAllListeners(); }, and the catch clause if it rejected
MainFinally ==
    /\ mainPc \in {"resolved", "rejected"}
    /\ RefresherRemoveAllListeners
    /\ IF mainPc = "resolved"
       THEN /\ mainPc' = "engine"
            /\ awaitedChanges' = awaitedChanges + 1
            /\ UNCHANGED <<logged, backoffWaited>>
       ELSE MainCatch /\ UNCHANGED awaitedChanges
    /\ UNCHANGED <<engineRuns, sessions>>

\* Time passes while the timeout of the reconnect is pending
BackoffTick(e) ==
    /\ mainPc = "backoff"
    /\ backoffWaited < e
    /\ backoffWaited' = e
    /\ UNCHANGED <<mainPc, logged, engineRuns, awaitedChanges, sessions,
                   schedulerVars, refresherVars>>

\* await new Promise((resolve) => setTimeout(resolve, 10_000)) settles
MainReconnect ==
    /\ mainPc = "backoff"
    /\ backoffWaited >= ReconnectDelay
    /\ mainPc' = "connect"
    /\ UNCHANGED <<backoffWaited, logged, engineRuns, awaitedChanges, sessions,
                   schedulerVars, refresherVars>>

\* A rejection that nothing handles ends the process, or only warns,
\* depending on how node treats unhandled rejections
ProcessExits ==
    /\ mainPc # "exited"
    /\ unhandled > 0
    /\ mainPc' = "exited"
    /\ UNCHANGED <<backoffWaited, logged, engineRuns, awaitedChanges, sessions,
                   schedulerVars, refresherVars>>

\* The frame of a step of info during which the loop awaits; settled tells
\* whether the step has called resolve or reject
InfoStep(settled) ==
    /\ MainAwaits
    /\ mainPc' = IF mainPc = "waiting" /\ settled # "" THEN settled ELSE mainPc
    /\ UNCHANGED <<backoffWaited, logged, engineRuns, awaitedChanges, sessions>>

MainNext ==
    \/ \E ok \in BOOLEAN : MainConnect(ok) /\ UNCHANGED restVars
    \/ \E ok \in BOOLEAN : MainGetInfo(ok) /\ UNCHANGED restVars
    \/ \E ok \in BOOLEAN : MainDeleteOldFailedPayments(ok) /\ UNCHANGED restVars
    \/ \E ok \in BOOLEAN : MainRunEngine(ok) /\ UNCHANGED restVars
    \/ MainOnChanged /\ UNCHANGED restVars
    \/ MainOnError /\ UNCHANGED restVars
    \/ MainFinally /\ UNCHANGED restVars
    \/ \E e \in {1, ReconnectDelay - 1, ReconnectDelay} : BackoffTick(e) /\ UNCHANGED restVars
    \/ MainReconnect /\ UNCHANGED restVars
    \/ ProcessExits /\ UNCHANGED restVars
    \/ \E e \in 1..Len(emitters) : ServerChanged(e) /\ InfoStep("") /\ UNCHANGED restVars
    \/ \E e \in 1..Len(emitters) :
        /\ ServerError(e)
        /\ InfoStep(IF 1 \in emitters[e].error THEN "rejected" ELSE "")
        /\ UNCHANGED restVars
    \/ \E e \in {1, timeoutOf(delayMilliseconds) - 1, timeoutOf(delayMilliseconds)} :
        Tick(e) /\ InfoStep("") /\ UNCHANGED <<refresherVars, restVars>>
    \/ RefreshStarts /\ InfoStep("") /\ UNCHANGED restVars
    \/ RefreshFulfils /\ InfoStep(IF 1 \in clientListeners THEN "resolved" ELSE "")
                      /\ UNCHANGED restVars
    \/ RefreshRejects /\ InfoStep(IF 1 \in listeners THEN "rejected" ELSE "")
                      /\ UNCHANGED restVars

\* The program starts: log("Connecting...") and the first await connectLnd()
InitMain ==
    /\ EngineInit(DefaultConfig, <<>>, <<>>, Now)
    /\ NoScheduler
    /\ NoRefresher
    /\ NoNodeInfo
    /\ ret = Undefined
    /\ mainPc = "connect"
    /\ backoffWaited = 0
    /\ logged = 0
    /\ engineRuns = 0
    /\ awaitedChanges = 0
    /\ sessions = 0

SpecMain == InitMain /\ [][MainNext]_vars

\* The Scheduler where time passes, a timeout that has passed resolves, and
\* every func that is invoked settles
SpecSchedulerFair ==
    /\ InitScheduler
    /\ [][SchedulerNext]_vars
    /\ WF_vars(Tick(timeoutOf(delayMilliseconds)) /\ UNCHANGED nonSchedulerVars)
    /\ WF_vars(TimerFires /\ UNCHANGED nonSchedulerVars)
    /\ WF_vars((FuncReturns \/ FuncThrows) /\ UNCHANGED nonSchedulerVars)

(* Properties of the balance actions                                       *)

\* get() has passed the node balance action
PastBalance == pc \in {"fee", "done", "error"}

\* The sum of the capacities of the snapshot's channels
TotalCapacity == SumSeq([i \in 1..Len(stats) |-> stats[i].properties.capacity])

\* round(minChannelBalanceFraction * capacity) of channel i
MinBal(i) == RRound(RMul(config.minChannelBalanceFraction, R(stats[i].properties.capacity)))

\* round(0.5 * capacity) of channel i
HalfCapacity(i) == RRound(RMul(Rat(1, 2), R(stats[i].properties.capacity)))

\* Channel i has too few forwards, or no forwarded tokens at all
InsufficientData(i) ==
    \/ stats[i].inForwards.count + stats[i].outForwards.count < config.minChannelForwards
    \/ stats[i].inForwards.totalTokens + stats[i].outForwards.totalTokens = 0

\* Channel i has enough forwards, all of them incoming
InflowOnly(i) ==
    /\ stats[i].inForwards.count + stats[i].outForwards.count >= config.minChannelForwards
    /\ stats[i].outForwards.totalTokens = 0
    /\ stats[i].inForwards.totalTokens > 0

\* round(capacity - inForwards.maxTokens * (1 + largestForwardMarginFraction))
MaxLargestForwardBalance(i) ==
    RRound(RSub(R(stats[i].properties.capacity),
                RMul(R(stats[i].inForwards.maxTokens),
                     RAdd(R(1), config.largestForwardMarginFraction))))

\* The balance action of channel i is among the yielded actions
BalanceYielded(i) ==
    \E k \in 1..Len(out) :
        out[k].entity = "channel" /\ out[k].variable = "balance" /\ out[k].id = i

\* C3: every balance action the engine computes has 0 <= target <= max,
\* where max is the capacity of the channel for a channel action and the sum
\* of the capacities of all channels for the node action.
C3_BalanceTargetWithinMax ==
    /\ \A i \in 1..Len(channels) :
        /\ RLe(R(0), channels[i].target)
        /\ RLe(channels[i].target, R(channels[i].max))
        /\ channels[i].max = stats[i].properties.capacity
    /\ PastBalance =>
        /\ RLe(R(0), nodeBalanceAction(acc, config).target)
        /\ RLe(nodeBalanceAction(acc, config).target, R(nodeBalanceAction(acc, config).max))
        /\ nodeBalanceAction(acc, config).max = TotalCapacity

\* C3 witness: get() has finished, one channel target was clamped by the
\* largest outgoing forward, and the node balance action was yielded.
C3_Witness ==
    /\ pc = "done"
    /\ \E i \in 1..Len(channels) : channels[i].reason = "below the largest outgoing forward"
    /\ \E k \in 1..Len(out) : out[k].entity = "node" /\ out[k].max = TotalCapacity

\* C5: the balance target of every channel lies between
\* minBal = round(minChannelBalanceFraction * capacity) and capacity - minBal,
\* also when the largest-forward clamps apply.
C5_TargetWithinFloorAndCeiling ==
    \A i \in 1..Len(channels) :
        /\ RLe(MinBal(i), channels[i].target)
        /\ RLe(channels[i].target, RSub(R(stats[i].properties.capacity), MinBal(i)))

\* C6: a channel with fewer forwards than minChannelForwards, or without any
\* forwarded token, gets the target round(0.5 * capacity); if its local
\* balance equals that target, the priority is 0 and the action is not yielded.
C6_InsufficientDataTargetsHalf ==
    \A i \in 1..Len(channels) :
        InsufficientData(i) =>
            /\ channels[i].target = HalfCapacity(i)
            /\ R(stats[i].properties.local_balance) = channels[i].target =>
                /\ channels[i].priority = R(0)
                /\ ~BalanceYielded(i)

\* C6 witness: get() has finished for a snapshot with a channel that has seen
\* forwards, but fewer than required, and sits exactly on half its capacity.
C6_Witness ==
    /\ pc = "done"
    /\ \E i \in 1..Len(channels) :
        /\ InsufficientData(i)
        /\ stats[i].inForwards.count + stats[i].outForwards.count > 0
        /\ R(stats[i].properties.local_balance) = HalfCapacity(i)
        /\ ~BalanceYielded(i)

\* C7 as stated: a channel with enough forwards, all of them incoming, gets
\* the target minBal whatever its largest incoming forward and the margin.
C7_InflowOnlyTargetsMinBal ==
    \A i \in 1..Len(channels) : InflowOnly(i) => channels[i].target = MinBal(i)

\* C7: a channel with enough forwards, all of them incoming, gets the target
\* minBal if the largest incoming forward plus margin fits the capacity
\* (round(capacity - maxTokens * (1 + margin)) >= 0), and round(0.5 * capacity)
\* otherwise.
C7_InflowOnlyTargetsMinBalIfFits ==
    \A i \in 1..Len(channels) :
        InflowOnly(i) =>
            channels[i].target =
                IF RLe(R(0), MaxLargestForwardBalance(i)) THEN MinBal(i) ELSE HalfCapacity(i)

\* C7 witness: get() has finished for a snapshot with an inflow-only channel
\* whose largest incoming forward is most of the capacity, and still fits.
C7_Witness ==
    /\ pc = "done"
    /\ \E i \in 1..Len(channels) :
        /\ InflowOnly(i)
        /\ stats[i].inForwards.maxTokens = 7
        /\ RLe(R(0), MaxLargestForwardBalance(i))
        /\ channels[i].target = MinBal(i)
        /\ MinBal(i) # HalfCapacity(i)

-----------------------------------------------------------------------------
(* Properties of the sequence that get() yields, and of the fee actions    *)

IsBalance(a) == a.variable = "balance"

IsFee(a) == a.variable = "feeRate"

IsDecrease(a) == a.reason \in {"decrease", "rebalanced decrease"}

\* A fee action that raises the fee rate of its channel
IsIncrease(a) == IsFee(a) /\ RLt(R(a.actual), a.target)

\* C1: in the sequence that get() yields, the channel balance actions come
\* before the node balance action, which comes before the fee actions (that
\* only start once the node balance action has had its turn), and both the
\* balance part and the fee part follow the map order of the channels.
C1_OutputOrdered ==
    /\ \A j, k \in 1..Len(out) :
        j < k =>
            /\ ~(IsFee(out[j]) /\ IsBalance(out[k]))
            /\ ~(out[j].entity = "node" /\ out[k].entity = "channel" /\ IsBalance(out[k]))
            /\ ~(out[j].entity = "node" /\ out[k].entity = "node")
            /\ (/\ out[j].entity = "channel" /\ out[k].entity = "channel"
                /\ out[j].variable = out[k].variable) => out[j].id < out[k].id
    /\ \A k \in 1..Len(out) : IsFee(out[k]) => PastBalance

\* C1 witness: get() has finished and has yielded a balance action for both
\* channels, the node balance action and a fee action for both channels.
C1_Witness ==
    /\ pc = "done"
    /\ Len(out) = 5
    /\ out[1].entity = "channel" /\ IsBalance(out[1])
    /\ out[2].entity = "channel" /\ IsBalance(out[2])
    /\ out[3].entity = "node"
    /\ IsFee(out[4])
    /\ IsFee(out[5])

\* C2: every yielded action has a priority of at least 1, and a balance
\* action whose priority is 0 or not a number is not yielded.
C2_YieldedPriorityAtLeastOne ==
    /\ \A k \in 1..Len(out) : RLe(R(1), out[k].priority)
    /\ \A i \in 1..Len(channels) :
        ~RLt(R(0), channels[i].priority) => ~BalanceYielded(i)
    /\ (PastBalance /\ ~RLt(R(0), nodeBalanceAction(acc, config).priority)) =>
        \A k \in 1..Len(out) : out[k].entity # "node"

\* C2 witness: get() has finished, the balance action of one channel had
\* priority 0 and is missing, while other balance and fee actions were yielded.
C2_Witness ==
    /\ pc = "done"
    /\ \E i \in 1..Len(channels) : channels[i].priority = R(0) /\ ~BalanceYielded(i)
    /\ \E k \in 1..Len(out) : IsBalance(out[k])
    /\ \E k \in 1..Len(out) : IsFee(out[k])

\* C4: every yielded fee action has 0 <= target <= maxFeeRate.
C4_FeeTargetWithinMax ==
    \A k \in 1..Len(out) :
        IsFee(out[k]) =>
            /\ RLe(R(0), out[k].target)
            /\ RLe(out[k].target, R(config.maxFeeRate))

\* C8: every yielded fee decrease has a target of at least the minFeeRate
\* that getMinFeeRate decides for the channel (0, or the larger of the
\* average in-rebalance rate and partnerFeeRate ?? 0), and a target strictly
\* below the current fee rate of the channel.
C8_FeeDecreaseWithinBounds ==
    \A k \in 1..Len(out) :
        (IsFee(out[k]) /\ IsDecrease(out[k])) =>
            /\ RLe(getMinFeeRate(stats[out[k].id], config), out[k].target)
            /\ RLt(out[k].target, R(stats[out[k].id].properties.fee_rate))
            /\ getMinFeeRate(stats[out[k].id], config) \in
                {R(0), RMax(getAverageRebalanceRate(stats[out[k].id].history),
                            realPartnerFeeRate(stats[out[k].id]))}

\* C8 witness: get() has finished and has yielded a rebalanced fee decrease
\* and, in another run, a forward-anchored one, whose target is a minFeeRate
\* above 0.
C8_Witness ==
    /\ pc = "done"
    /\ \E k \in 1..Len(out) :
        /\ IsFee(out[k]) /\ IsDecrease(out[k])
        /\ RLt(R(0), getMinFeeRate(stats[out[k].id], config))
        /\ out[k].target = getMinFeeRate(stats[out[k].id], config)

\* The bound of C9: at least 30 ppm, or maxFeeRate if that is below 30
AtLeast30(a) ==
    IF config.maxFeeRate < 30 THEN a.target = R(config.maxFeeRate)
    ELSE RLe(R(30), a.target)

\* C9 as stated: every yielded fee increase has a target of at least 30 ppm,
\* or of maxFeeRate if maxFeeRate < 30.
C9_FeeIncreaseAtLeast30 ==
    \A k \in 1..Len(out) : IsIncrease(out[k]) => AtLeast30(out[k])

\* C9: a yielded fee increase of the maximum-increase path or of the
\* no-forwards path has a target of at least 30 ppm, or of maxFeeRate if
\* maxFeeRate < 30; one of the above-bounds inflow path has a target above
\* the current fee rate and of at most maxFeeRate, without the 30 ppm floor.
C9_FeeIncreaseAtLeast30UnlessInflow ==
    \A k \in 1..Len(out) :
        IsIncrease(out[k]) =>
            /\ out[k].reason \in {"maximum increase", "no forwards", "above bounds inflow"}
            /\ out[k].reason # "above bounds inflow" => AtLeast30(out[k])
            /\ out[k].reason = "above bounds inflow" =>
                RLe(out[k].target, R(config.maxFeeRate))

\* C9 witness: get() has finished and has yielded a maximum increase that
\* the floor raised to 30 ppm.
C9_Witness ==
    /\ pc = "done"
    /\ config.maxFeeRate >= 30
    /\ \E k \in 1..Len(out) :
        /\ IsIncrease(out[k])
        /\ out[k].reason = "maximum increase"
        /\ out[k].target = R(30)

-----------------------------------------------------------------------------
(* Properties of the Scheduler                                             *)

\* The functions of the calls that found the scheduler busy
Dropped == (1..calls) \ accepted

\* C10: a call() made while the scheduler is busy does nothing: its function
\* is never pending, running or invoked; at most one function is pending or
\* running at any time, the scheduler is busy exactly while one is, and every
\* busy period, however many calls fall into it, invokes exactly one function,
\* the one that started it.
C10_BusyCallsDropped ==
    /\ Cardinality(timer) + Cardinality(running) <= 1
    /\ idle <=> (timer = {} /\ running = {})
    /\ \A f \in Dropped :
        /\ f \notin timer
        /\ f \notin running
        /\ \A k \in 1..Len(invoked) : invoked[k] # f
    /\ \A j, k \in 1..Len(invoked) : j # k => invoked[j] # invoked[k]
    /\ Len(invoked) + Cardinality(timer) = Cardinality(accepted)

\* C10 witness: a burst of three calls, two of them during the busy period
\* that the first one started, has led to one invocation, and the scheduler is
\* idle again.
C10_Witness ==
    /\ calls = 3
    /\ accepted = {1}
    /\ invoked = <<1>>
    /\ idle

-----------------------------------------------------------------------------
(* Properties of the node balance action                                   *)

\* The sum of the local balances of the snapshot's channels
TotalBalance == SumSeq([i \in 1..Len(stats) |-> stats[i].properties.local_balance])

\* The sum of the balance targets of all channels
TotalTarget == RSum(Targets)

\* 4 * floor(|distance(actual, target, max)| / minRebalanceDistance) over all channels
NodePriority ==
    RMul(R(4), RFloor(RDiv(RAbs(getTargetBalanceDistance(R(TotalBalance), TotalTarget,
                                                         R(TotalCapacity))),
                           config.minRebalanceDistance)))

\* The node balance actions among the yielded actions
NodeActions == SelectSeq(out, LAMBDA a : a.entity = "node")

\* C19: once get() has passed the balance actions, the sums it holds are
\* those of all channels of the snapshot, yielded or not: actual is the sum
\* of the local balances, target the sum of the channel targets and max the
\* sum of the capacities.  The node balance action is yielded exactly when
\* 4 * floor(|distance(actual, target, max)| / minRebalanceDistance) > 0, and
\* it then carries these sums and that priority.
C19_NodeActionSumsAllChannels ==
    PastBalance =>
        /\ acc.actual = TotalBalance
        /\ acc.target = TotalTarget
        /\ acc.max = TotalCapacity
        /\ Len(NodeActions) = (IF RLt(R(0), NodePriority) THEN 1 ELSE 0)
        /\ \A k \in 1..Len(NodeActions) :
            /\ NodeActions[k].actual = TotalBalance
            /\ NodeActions[k].target = TotalTarget
            /\ NodeActions[k].max = TotalCapacity
            /\ NodeActions[k].priority = NodePriority
            /\ NodeActions[k].variable = "balance"

\* C19 witness: get() has finished, the balance action of one channel had
\* priority 0 and was not yielded, the one of the other channel and the node
\* balance action were yielded.
C19_Witness ==
    /\ pc = "done"
    /\ \E i \in 1..Len(channels) : channels[i].priority = R(0) /\ ~BalanceYielded(i)
    /\ \E i \in 1..Len(channels) : BalanceYielded(i)
    /\ Len(NodeActions) = 1

\* The funcs invoked so far
Invoked == {invoked[k] : k \in 1..Len(invoked)}

\* C11: a busy scheduler eventually becomes idle again; it is idle only when
\* no timer is pending and every func that a call() started a delay for has
\* been invoked and has settled, by returning or by failing; and a call()
\* made while idle is accepted.
C11_EventuallyIdleAgain ==
    /\ (~idle) ~> idle
    /\ [](idle => (timer = {} /\ running = {} /\ accepted = Invoked))
    /\ [][(idle /\ calls' = calls + 1) => (calls + 1) \in accepted']_vars

\* C11 witness: the scheduler is idle again after two busy periods, the
\* func of one of which failed, and the second call was accepted after the
\* first period.
C11_Witness ==
    /\ idle
    /\ invoked = <<1, 2>>
    /\ accepted = {1, 2}
    /\ errors = 1
    /\ running = {}

\* The text of an invalid constructor argument as the message shows it
TextOf(value) ==
    IF value.type # "number" THEN value.str
    ELSE IF value.num = R(-10) THEN <<"-", "1", "0">>
    ELSE IF value.num = R(-1) THEN <<"-", "1">>
    ELSE <<"0">>

\* C15: new Scheduler(value) with a value that is not of type number, or
\* that is a number <= 0, throws an Error with the message
\* "delayMilliseconds is invalid: <value>." and yields no object, on which
\* nothing can then be called; without an argument the object has a
\* delayMilliseconds of 10000; any other number becomes delayMilliseconds
\* (NaN, whose type is number and which is not <= 0, included).
C15_InvalidDelayThrows ==
    /\ [][\A value \in DelayArgs :
            NewScheduler(value) =>
                IF value.type = "undefined"
                THEN constructed' /\ delayMilliseconds' = R(10000) /\ thrown' = <<>>
                ELSE IF value.type # "number" \/ (value.num.d # 0 /\ value.num.n <= 0)
                THEN /\ ~constructed'
                     /\ thrown' = <<"delayMilliseconds is invalid: ">> \o TextOf(value) \o <<".">>
                ELSE constructed' /\ delayMilliseconds' = value.num /\ thrown' = <<>>]_vars
    /\ [](~constructed => (calls = 0 /\ listeners = {}))
    /\ [][thrown # <<>> => (~constructed' /\ thrown' = thrown)]_vars

\* C15 witness: new Scheduler(-1) has thrown "delayMilliseconds is invalid: -1."
C15_Witness ==
    /\ ~constructed
    /\ thrown = <<"delayMilliseconds is invalid: ", "-", "1", ".">>

-----------------------------------------------------------------------------
(* Properties of the Refresher                                             *)

C13_RefreshErrorReachesListeners ==
    /\ [](unhandled = 0)
    /\ [][errors' = errors + 1 =>
            /\ notified' = notified
            /\ \A l \in listeners : received'[l] = received[l] + 1]_vars

\* C14: no server emitter exists until a listener is registered; while
\* listeners are registered the emitter in use stays the same, and it has one
\* "error" listener for each onError listener and one listener for the
\* server's change event if there is any onChanged listener, however many;
\* after removeAllListeners() no emitter is in use and the one that was has no
\* listeners left; a registration that finds no emitter in use creates a new
\* one.
C14_EmitterOnDemand ==
    /\ [](serverEmitters = 0 <=> (clientListeners = {} /\ listeners = {}))
    /\ [](serverEmitters # 0 =>
            /\ serverEmitters = Len(emitters)
            /\ emitters[serverEmitters].error = listeners
            /\ emitters[serverEmitters].changed = (IF clientListeners = {} THEN 0 ELSE 1))
    /\ [](\A e \in 1..Len(emitters) :
            e # serverEmitters => emitters[e] = [error |-> {}, changed |-> 0])
    /\ [][/\ (serverEmitters # 0 /\ serverEmitters' # 0) => serverEmitters' = serverEmitters
          /\ Len(emitters') # Len(emitters) =>
                /\ serverEmitters = 0
                /\ Len(emitters') = Len(emitters) + 1
                /\ serverEmitters' = Len(emitters')
                /\ clientListeners' # clientListeners \/ listeners' # listeners]_vars

\* C14 witness: after removeAllListeners() the first emitter has no listeners,
\* and a second one is in use with two "error" listeners and, for two
\* onChanged listeners, one listener for the change event.
C14_Witness ==
    /\ serverEmitters = 2
    /\ emitters = <<[error |-> {}, changed |-> 0], [error |-> {1, 2}, changed |-> 1]>>
    /\ clientListeners = {1, 2}

-----------------------------------------------------------------------------
(* Properties of the construction of Actions                               *)

\* The documented bounds of a configuration
ValidConfig(cfg) ==
    /\ RLt(R(0), cfg.minRebalanceDistance)
    /\ RLt(cfg.minRebalanceDistance, cfg.minFeeIncreaseDistance)
    /\ RLt(cfg.feeDecreaseWaitDays, R(cfg.days))

\* C16: new Actions(stats, config) fails for a configuration outside the
\* documented bounds, so that the engine never gets past its construction,
\* and get() never yields an action, with such a configuration.
C16_InvalidConfigRejected ==
    (pc # "new" \/ out # <<>>) => ValidConfig(config)

-----------------------------------------------------------------------------
(* Properties of getLastOutFeeRate                                         *)

\* The OutForwards of the history of the channel, latest first
OutForwards == SelectSeq(stats[1].history, LAMBDA c : c.kind = OutForward)

\* The summed amount of the k latest OutForwards
OutAmount(k) == SumSeq([i \in 1..k |-> OutForwards[i].amount])

\* minOutFeeForwardFraction * capacity
Threshold == RMul(config.minOutFeeForwardFraction, R(stats[1].properties.capacity))

\* round((sum of the fees - k * base_fee) / (sum of the amounts) * 1000000)
\* over the k latest OutForwards
RunRate(k) ==
    RRound(RMul(RDiv(R(SumSeq([i \in 1..k |-> OutForwards[i].fee])
                       - k * stats[1].properties.base_fee),
                     R(OutAmount(k))),
                R(1000000)))

-----------------------------------------------------------------------------
\* An array of NodeInfo is sorted earliest to latest
Sorted(array) == \A i, j \in 1..Len(array) : i < j => array[i] <= array[j]

\* C17: in every reachable state, after the initial fetch and after any
\* interleaving of "forward" and "confirmed" events and of the answers their
\* handlers await, the forwards and the payments of NodeInfo are sorted
\* earliest to latest by created_at.
C17_ArraysSortedEarliestToLatest == Sorted(infoForwards) /\ Sorted(infoPayments)


-----------------------------------------------------------------------------
\* What the main loop has done about the errors it caught and the changes it
\* awaited: after a caught error no listener of the loop is left and the
\* reconnect waits for the whole delay, and the engine has run once for every
\* connection and once more for every awaited change
MainLoopHandled ==
    /\ mainPc \in {"backoff", "connect", "getInfo"} =>
        clientListeners = {} /\ listeners = {} /\ serverEmitters = 0
    /\ (mainPc = "connect" /\ logged > 0) => backoffWaited = ReconnectDelay
    /\ mainPc \in {"onChanged", "onError", "waiting", "resolved", "rejected"} =>
        engineRuns = sessions + awaitedChanges
    /\ mainPc = "engine" => engineRuns + 1 = sessions + awaitedChanges

\* C18: the main loop never terminates because of an error: every error is
\* caught and logged, the listeners are removed, the reconnect is attempted
\* after the delay of 10 s, and the engine is run again after every awaited
\* change notification.
C18_MainLoopNeverTerminates == mainPc # "exited" /\ MainLoopHandled


-----------------------------------------------------------------------------
\* C21: with minOutFeeForwardFraction = 0, the last out fee rate of a channel
\* with at least one OutForward is the rate of exactly the latest outgoing
\* forward, its fee minus the base fee over its amount, and it lets the
\* channel be handled by the regular fee algorithm.
C21_ZeroFractionUsesLatestForward ==
    (pc = "done" /\ config.minOutFeeForwardFraction = R(0) /\ OutForwards # <<>>) =>
        /\ ret = [defined |-> TRUE,
                  value |-> getFeeRate(
                    R(OutForwards[1].fee - stats[1].properties.base_fee),
                    R(OutForwards[1].amount))]
        /\ ~IsNaN(ret.value)


-----------------------------------------------------------------------------
\* getFeeAction has run for the channel at index i without throwing
FeeDone(i) == i \in 1..Len(stats) /\ pc \in {"fee", "done"} /\ idx > i

\* The fee actions that get() has yielded for the channel at index i
FeeActions(i) ==
    SelectSeq(out, LAMBDA a : IsFee(a) /\ a.entity = "channel" /\ a.id = i)

\* The channel at index i has an OutForward and its last out fee rate is
\* defined
HasLastOutFeeRate(i) ==
    /\ ofKind(stats[i].history, OutForward) # <<>>
    /\ getLastOutFeeRate(stats[i], config).defined

\* C22: every channel that has an OutForward and a defined last out fee rate,
\* whatever the value of that rate, gets its fee action relative to that rate
\* (Case A); the proposal of 0 or maxFeeRate (Case B) is made only for a
\* channel without OutForward or without a rate.
C22_CaseAWheneverRateDefined ==
    \A i \in 1..Len(stats) :
        (FeeDone(i) /\ HasLastOutFeeRate(i)) =>
            \A k \in 1..Len(FeeActions(i)) : FeeActions(i)[k].reason # "no forwards"

\* C26: for a snapshot that satisfies the timeline invariants, get() never
\* throws "Unexpected empty history or no outgoing forwards found": the only
\* error it can end with is that of a channel without target.
C26_IncreaseNeverWithoutForwards ==
    pc = "error" => \E i \in 1..Len(stats) : distanceThrows(Targets, i)


-----------------------------------------------------------------------------
\* getFeeAction takes its else branch for the channel at index i
CaseB(i) ==
    ~(ofKind(stats[i].history, OutForward) # <<>>
      /\ Truthy(getLastOutFeeRate(stats[i], config)))

\* The rate proposed in Case B
ProposedRate(i) ==
    IF RLe(getCurrentDistance(Targets, stats[i]), RNeg(config.minFeeIncreaseDistance))
    THEN config.maxFeeRate ELSE 0

\* C23: in Case B one fee action, with the proposed rate as target, is
\* emitted if the channel has been open for at least config.days and the
\* proposed rate differs from the current fee_rate, and none otherwise; the
\* proposed rate is maxFeeRate if currentDistance <= -minFeeIncreaseDistance
\* and 0 otherwise.
C23_CaseBActsOnOldChannelsOnly ==
    \A i \in 1..Len(stats) :
        (FeeDone(i) /\ CaseB(i)) =>
            IF now - stats[i].properties.openedAt >= config.days
               /\ ProposedRate(i) # stats[i].properties.fee_rate
            THEN /\ Len(FeeActions(i)) = 1
                 /\ FeeActions(i)[1].target = R(ProposedRate(i))
            ELSE FeeActions(i) = <<>>

\* A channel open for exactly config.days got its Case B action
C23_Witness ==
    /\ FeeDone(1)
    /\ CaseB(1)
    /\ now - stats[1].properties.openedAt = config.days
    /\ Len(FeeActions(1)) = 1
    /\ FeeActions(1)[1].target = R(config.maxFeeRate)


-----------------------------------------------------------------------------
\* The InRebalance events of the first channel, latest first
InRebalances == ofKind(stats[1].history, InRebalance)

\* The arithmetic mean of the fee rates of the k most recent InRebalance events
MeanRebalanceRate(k) ==
    RDiv(RSum([i \in 1..k |->
                getFeeRate(R(InRebalances[i].fee), R(InRebalances[i].amount))]),
         R(k))

\* C24: the rebalance rate that is the floor of the fee decreases is the
\* arithmetic mean of the fee rates of the three most recent InRebalance
\* events of the channel, of all of them if there are fewer than three.
C24_MeanOfThreeMostRecentRebalances ==
    (pc = "done" /\ InRebalances # <<>>) =>
        ret = MeanRebalanceRate(IF Len(InRebalances) >= 3 THEN 3 ELSE Len(InRebalances))


-----------------------------------------------------------------------------
\* currentDistance of the channel at index i
CurrentDistance(i) == getCurrentDistance(Targets, stats[i])

\* The channel at index i is in Case A and not below bounds
CaseA2(i) ==
    /\ ~CaseB(i)
    /\ ~RLe(CurrentDistance(i), RNeg(config.minFeeIncreaseDistance))

\* The time from which the fee decrease of the channel at index i counts:
\* notBelowStart if that is later than the last OutForward, else the time of
\* the last OutForward
DecreaseAnchor(i) ==
    LET notBelow == notBelowChanges(Targets, stats[i], config)
        lastOut == Head(ofKind(stats[i].history, OutForward)).time
    IN  IF notBelow # <<>> /\ notBelow[Len(notBelow)].time > lastOut
        THEN notBelow[Len(notBelow)].time ELSE lastOut

\* The time elapsed since the anchor exceeds feeDecreaseWaitDays
DecreaseAttempted(i) == RLt(config.feeDecreaseWaitDays, R(now - DecreaseAnchor(i)))

\* The above bounds inflow fee increases yielded for the channel at index i
AboveBoundsActions(i) ==
    SelectSeq(FeeActions(i), LAMBDA a : a.reason = "above bounds inflow")

\* C25: in Case A.2, whenever the time elapsed since the anchor exceeds
\* feeDecreaseWaitDays the decrease counts as attempted and no above bounds
\* inflow fee increase is emitted, even if the decrease emitted nothing; an
\* above bounds inflow fee increase is emitted only when the decrease was not
\* attempted and currentDistance <= -minRebalanceDistance.
C25_NoInflowIncreaseAfterAttemptedDecrease ==
    \A i \in 1..Len(stats) :
        (FeeDone(i) /\ CaseA2(i)) =>
            /\ DecreaseAttempted(i) =>
                \A k \in 1..Len(FeeActions(i)) : IsDecrease(FeeActions(i)[k])
            /\ AboveBoundsActions(i) # <<>> =>
                /\ ~DecreaseAttempted(i)
                /\ RLe(CurrentDistance(i), RNeg(config.minRebalanceDistance))

\* A decrease was attempted and emitted nothing, and the above bounds inflow
\* fee increase, which would have emitted an action, was not tried
C25_Witness ==
    /\ FeeDone(1)
    /\ CaseA2(1)
    /\ DecreaseAttempted(1)
    /\ FeeActions(1) = <<>>
    /\ RLe(CurrentDistance(1), RNeg(config.minRebalanceDistance))
    /\ getAboveBoundsFeeIncreaseAction(
            Targets, stats, config, now, stats[1],
            getLastOutFeeRate(stats[1], config).value,
            ofKind(stats[1].history, OutForward)) # <<>>


-----------------------------------------------------------------------------
\* C27: get() yields at most one fee action per channel, and the target of
\* every fee action it yields differs from the current fee_rate of the
\* channel: it is above it for an increase and below it for a decrease.
C27_OneFeeActionDifferentFromCurrent ==
    \A i \in 1..Len(stats) :
        /\ Len(FeeActions(i)) <= 1
        /\ \A k \in 1..Len(FeeActions(i)) :
            LET a == FeeActions(i)[k]
            IN  /\ a.actual = stats[i].properties.fee_rate
                /\ a.target # R(a.actual)
                /\ a.reason \in {"maximum increase", "above bounds inflow"} =>
                    RLt(R(a.actual), a.target)
                /\ IsDecrease(a) => RLt(a.target, R(a.actual))

\* get() has returned a fee decrease for the first channel and a fee action
\* for the second one
C27_Witness ==
    /\ pc = "done"
    /\ Len(FeeActions(1)) = 1
    /\ IsDecrease(FeeActions(1)[1])
    /\ Len(FeeActions(2)) = 1


-----------------------------------------------------------------------------
\* C28: no call is lost: whenever call(func) is made, be the Scheduler idle,
\* in its delay or executing func, an invocation of func is still to start,
\* that is, a timeout is pending once the call has returned.
C28_NoCallLost == [][calls' = calls + 1 => timer' # {}]_vars


-----------------------------------------------------------------------------
\* Every element of the array was created within the rolling window
WithinWindow(array, after) == \A k \in 1..Len(array) : array[k] >= after

\* C29: after every change emission of NodeInfoImpl neither forwards nor
\* payments holds an element created before the start of the rolling window,
\* now - days, whatever the two arrays held, all elements of one array being
\* older than the window included.
C29_NoOutdatedElementAfterChange ==
    [][Cardinality(fetches') < Cardinality(fetches) =>
        /\ WithinWindow(infoForwards', lndNow' - infoDays')
        /\ WithinWindow(infoPayments', lndNow' - infoDays')]_vars

\* C30: after any sequence of on() and off() calls, off() with a listener
\* that was never registered included, the handlers of NodeInfoImpl are
\* attached to the emitters of the node exactly when at least one "change"
\* listener is registered.
C30_SubscribedWhileListening == subscribed <=> changeListeners > 0

=============================================================================
